---- MODULE Spec2Model ----
(***************************************************************************)
(* A model of the JupyterCAD notebook document (cad_document.py) and of    *)
(* its geometric feature extraction service (feature_extraction.py).       *)
(*                                                                         *)
(* The document is the ordered list of object maps of the shared Y         *)
(* document.  The service holds a shape cache and a set of final objects   *)
(* and extracts, per object, a list of features by the parameter path or   *)
(* by the BRep path.  The OpenCASCADE kernel is outside the repository:    *)
(* a shape is modelled by the value the kernel calls were given, and a     *)
(* kernel failure is an input of the call that meets it.                   *)
(***************************************************************************)
EXTENDS Integers, Sequences, FiniteSets, TLC

(***************************************************************************)
(* Bounds of the model.                                                    *)
(***************************************************************************)
Names == {"a", "b", "c"}

MaxRadius == 2

MaxShapes == 3

MaxRequest == 2

MaxEdits == 3

MaxChanges == 1

\* a box has the dimensions 2, 4, ..., 2 * MaxHalfDim
MaxHalfDim == 2

\* a torus has Radius1 in 1..MaxMajor and Radius2 in 1..MaxRadius; a cone
\* has radii up to MaxMajor
MaxMajor == 3

\* the height of a cone
ConeHeight == 8

\* the edges and faces at which the model makes the kernel raise: the
\* first MaxElement of a shape
MaxElement == 2

(***************************************************************************)
(* Shape kinds (jupytercad_core.schema.Parts values used by the code).     *)
(***************************************************************************)
BASIC_SHAPES ==
    {"Part::Box", "Part::Cylinder", "Part::Sphere", "Part::Cone", "Part::Torus"}

BOOLEAN_OPERATIONS == {"Part::Cut", "Part::MultiFuse", "Part::MultiCommon"}

ExtractionLevel == {"full", "standard", "minimal"}

_FEATURE_TYPE_SETS ==
    [l \in ExtractionLevel |->
        CASE l = "full" ->
                {"Feature::Point", "Feature::Plane", "Feature::Circle",
                 "Feature::Arc", "Feature::Edge", "Feature::Face"}
          [] l = "standard" ->
                {"Feature::Circle", "Feature::Arc", "Feature::Plane", "Feature::Point"}
          [] l = "minimal" -> {"Feature::Circle", "Feature::Plane"}]

(***************************************************************************)
(* Placement and parameters.  Every add_* and boolean method of the        *)
(* document has the same default placement; the second specification also  *)
(* places a box, a torus and an opaque shape elsewhere.                    *)
(***************************************************************************)
DefaultPlacement == [Position |-> <<0, 0, 0>>, Axis |-> <<0, 0, 1>>, Angle |-> 0]

\* Vectors are triples of integers.  The rotation axes of the model are unit
\* vectors along a coordinate axis and the angles multiples of 90 degrees,
\* for which the sine and the cosine are integers.
VecAdd(u, v) == <<u[1] + v[1], u[2] + v[2], u[3] + v[3]>>

VecScale(k, v) == <<k * v[1], k * v[2], k * v[3]>>

Dot(u, v) == u[1] * v[1] + u[2] * v[2] + u[3] * v[3]

Cross(u, v) ==
    <<u[2] * v[3] - u[3] * v[2], u[3] * v[1] - u[1] * v[3],
      u[1] * v[2] - u[2] * v[1]>>

sin_degrees(angle) ==
    CASE angle % 360 = 90 -> 1 [] angle % 360 = 270 -> -1 [] OTHER -> 0

cos_degrees(angle) ==
    CASE angle % 360 = 0 -> 1 [] angle % 360 = 180 -> -1 [] OTHER -> 0

\* _rotation_from_axis_angle: the rotation vector axis * angle; a zero axis
\* or a zero angle gives the identity
_rotation_from_axis_angle(axis, angle_degrees) ==
    [axis |-> axis, angle |-> angle_degrees]

\* _apply_rotation (Rodrigues' formula)
_apply_rotation(rotation, vector) ==
    LET k == rotation.axis
        s == sin_degrees(rotation.angle)
        c == cos_degrees(rotation.angle)
    IN  VecAdd(VecAdd(VecScale(c, vector), VecScale(s, Cross(k, vector))),
               VecScale((1 - c) * Dot(k, vector), k))

\* The "parameters" map of an object.  Radius is the dimension of a
\* primitive; Base and Tool are the operands of a Cut; Shapes the operands
\* of a MultiFuse or MultiCommon.  A field a kind does not have is empty.
PrimitiveParameters(radius) ==
    [Radius |-> radius, Base |-> "", Tool |-> "", Shapes |-> <<>>,
     Refine |-> FALSE, Placement |-> DefaultPlacement]

CutParameters(base, tool) ==
    [Radius |-> 0, Base |-> base, Tool |-> tool, Shapes |-> <<>>,
     Refine |-> FALSE, Placement |-> DefaultPlacement]

MultiParameters(shape1, shape2) ==
    [Radius |-> 0, Base |-> "", Tool |-> "", Shapes |-> <<shape1, shape2>>,
     Refine |-> FALSE, Placement |-> DefaultPlacement]

\* add_box: the three dimensions of a Box
BoxParameters(length, width, height, placement) ==
    [Length |-> length, Width |-> width, Height |-> height,
     Placement |-> placement]

\* add_torus: Radius1 is the distance from the centre to the centre of the
\* tube, Radius2 the radius of the tube
TorusParameters(radius1, radius2, placement) ==
    [Radius1 |-> radius1, Radius2 |-> radius2, Placement |-> placement]

\* add_cone: the bottom radius, the top radius and the height
ConeParameters(radius1, radius2, height, placement) ==
    [Radius1 |-> radius1, Radius2 |-> radius2, Height |-> height,
     Placement |-> placement]

\* add_occ_shape: the BRep text of a shape built outside the document
AnyParameters(content, placement) ==
    [Content |-> content, Type |-> "brep", Placement |-> placement]

(***************************************************************************)
(* The document: CadDocument._objects_array, a sequence of object maps.    *)
(***************************************************************************)
objects(d) == [i \in 1..Len(d) |-> d[i].name]

SeqRange(s) == {s[i] : i \in 1..Len(s)}

check_exist(d, name) == name \in SeqRange(objects(d))

_get_yobject_index_by_name(d, name) ==
    IF check_exist(d, name)
    THEN CHOOSE i \in 1..Len(d) :
            d[i].name = name /\ \A j \in 1..(i - 1) : d[j].name # name
    ELSE 0

_get_yobject_by_name(d, name) == d[_get_yobject_index_by_name(d, name)]

\* ObjectFactoryManager.create_object builds the Python object from the
\* map's name, shape, parameters and visible entries only.
create_object(data) ==
    [name |-> data.name, shape |-> data.shape,
     parameters |-> data.parameters, visible |-> data.visible]

get_object(d, name) == create_object(_get_yobject_by_name(d, name))

\* hasattr(obj, 'geometryFeatures') and obj.geometryFeatures
geometryFeaturesOf(obj) ==
    IF "geometryFeatures" \in DOMAIN obj THEN obj.geometryFeatures ELSE <<>>


(***************************************************************************)
(* Content hash: FeatureExtractionService._compute_object_hash.            *)
(* json.dumps(..., sort_keys=True) writes the keys of every map in sorted  *)
(* order; model_dump() gives the fields of the kind's parameter model.     *)
(* SHA-256 is taken to be injective on the serialised text.                *)
(***************************************************************************)
model_dump(shape, p) ==
    CASE shape = "Part::Box" ->
            << <<"Height", p.Height>>, <<"Length", p.Length>>,
               <<"Placement", p.Placement>>, <<"Width", p.Width>> >>
      [] shape = "Part::Torus" ->
            << <<"Placement", p.Placement>>, <<"Radius1", p.Radius1>>,
               <<"Radius2", p.Radius2>> >>
      [] shape = "Part::Cone" ->
            << <<"Height", p.Height>>, <<"Placement", p.Placement>>,
               <<"Radius1", p.Radius1>>, <<"Radius2", p.Radius2>> >>
      [] shape \in {"Part::Cylinder", "Part::Sphere"} ->
            << <<"Placement", p.Placement>>, <<"Radius", p.Radius>> >>
      [] shape = "Part::Cut" ->
            << <<"Base", p.Base>>, <<"Placement", p.Placement>>,
               <<"Refine", p.Refine>>, <<"Tool", p.Tool>> >>
      [] shape \in {"Part::MultiFuse", "Part::MultiCommon"} ->
            << <<"Placement", p.Placement>>, <<"Refine", p.Refine>>,
               <<"Shapes", p.Shapes>> >>
      [] shape = "Part::Any" ->
            << <<"Content", p.Content>>, <<"Placement", p.Placement>>,
               <<"Type", p.Type>> >>
      [] OTHER -> << <<"Placement", p.Placement>> >>

\* str(obj.shape) of the Parts enumeration member
str_shape(shape) == "Parts." \o shape

sha256(json_str) == <<"sha256", json_str>>

\* hash="" of a skipped or failed result, and .get('hash', '')
EmptyHash == <<>>

\* a hash that leaves the parameters out of the hashed text
_compute_object_hash_shape_only(obj) ==
    sha256(<< "shape", str_shape(obj.shape) >>)

_compute_object_hash(obj) ==
    sha256(<< "parameters", model_dump(obj.shape, obj.parameters),
              "shape", str_shape(obj.shape) >>)

(***************************************************************************)
(* The geometry kernel.  A shape is the record of the calls that built it. *)
(* A fault names the object whose reconstruction meets a kernel failure:   *)
(*   throw       a constructor or a boolean operation raises               *)
(*   not_done    a boolean operation ends with IsDone() false              *)
(*   placement   BRepBuilderAPI_Transform (or gp_Dir) raises               *)
(*   unavailable pythonocc-core cannot be imported                         *)
(*   edge, face  the kernel raises while one edge or one face of the        *)
(*               reconstructed shape is processed by the BRep path         *)
(***************************************************************************)
NoShape ==
    [kind |-> "none", radius |-> 0, ops |-> <<>>, refined |-> FALSE,
     placed |-> FALSE, placement |-> DefaultPlacement]

NoFault == [name |-> "", kind |-> "none"]

Unavailable == [name |-> "", kind |-> "unavailable"]

FaultKinds == {"throw", "not_done", "placement"}

\* the faults the model injects: none, no kernel, a failing constructor of
\* the primitive "a", and each failure of the boolean object "c"
Faults ==
    {NoFault, Unavailable, [name |-> "a", kind |-> "throw"]}
    \cup [name : {"c"}, kind : FaultKinds]

\* BRepPrimAPI_MakeBox / MakeCylinder / MakeSphere / MakeCone / MakeTorus:
\* a box keeps its three dimensions, a torus its major and minor radius
MakePrimitive(shape_type, params) ==
    CASE shape_type = "Part::Box" ->
            [kind |-> shape_type, radius |-> 0, ops |-> <<>>,
             refined |-> FALSE, placed |-> FALSE, placement |-> DefaultPlacement,
             dims |-> <<params.Length, params.Width, params.Height>>]
      [] shape_type = "Part::Torus" ->
            [kind |-> shape_type, radius |-> params.Radius1, ops |-> <<>>,
             refined |-> FALSE, placed |-> FALSE, placement |-> DefaultPlacement,
             minor_radius |-> params.Radius2]
      [] shape_type = "Part::Cone" ->
            [kind |-> shape_type, radius |-> params.Radius1, ops |-> <<>>,
             refined |-> FALSE, placed |-> FALSE, placement |-> DefaultPlacement,
             top_radius |-> params.Radius2, height |-> params.Height]
      [] OTHER ->
            [kind |-> shape_type, radius |-> params.Radius, ops |-> <<>>,
             refined |-> FALSE, placed |-> FALSE, placement |-> DefaultPlacement]

\* BRepAlgoAPI_Cut / _Fuse / _Common on copies of the two operands
BooleanOp(op, s1, s2) ==
    [kind |-> op, radius |-> 0, ops |-> <<s1, s2>>,
     refined |-> FALSE, placed |-> FALSE, placement |-> DefaultPlacement]

apply_refine(shape) == [shape EXCEPT !.refined = TRUE]

apply_placement(shape, placement) ==
    [shape EXCEPT !.placed = TRUE, !.placement = placement]

\* existing_shapes.get(name)
ShapeOf(existing_shapes, name) ==
    IF name \in DOMAIN existing_shapes THEN existing_shapes[name] ELSE NoShape

\* [existing_shapes.get(s) for s in shapes_list if existing_shapes.get(s)]
RECURSIVE valid_shapes(_, _)
valid_shapes(existing_shapes, shapes_list) ==
    IF shapes_list = <<>> THEN <<>>
    ELSE LET s == ShapeOf(existing_shapes, Head(shapes_list))
             rest == valid_shapes(existing_shapes, Tail(shapes_list))
         IN  IF s # NoShape THEN <<s>> \o rest ELSE rest

\* the left fold of MultiFuse / MultiCommon: a step whose operation is not
\* done keeps the current shape
RECURSIVE FoldShapes(_, _, _, _)
FoldShapes(op, current_shape, rest, not_done) ==
    IF rest = <<>> THEN current_shape
    ELSE FoldShapes(op,
                    IF not_done THEN current_shape
                    ELSE BooleanOp(op, current_shape, Head(rest)),
                    Tail(rest), not_done)

\* The shape the try block of _reconstruct_occ_shape leaves in occ_shape
\* when no call raises.
BuiltShape(obj, existing_shapes, not_done) ==
    LET shape_type == obj.shape
        params == obj.parameters
        refine(s) == IF params.Refine THEN apply_refine(s) ELSE s
    IN  CASE shape_type \in BASIC_SHAPES -> MakePrimitive(shape_type, params)
          [] shape_type = "Part::Cut" ->
                LET base == ShapeOf(existing_shapes, params.Base)
                    tool == ShapeOf(existing_shapes, params.Tool)
                IN  IF base # NoShape /\ tool # NoShape /\ ~not_done
                    THEN refine(BooleanOp("cut", base, tool))
                    ELSE NoShape
          [] shape_type \in {"Part::MultiFuse", "Part::MultiCommon"} ->
                LET valid == valid_shapes(existing_shapes, params.Shapes)
                    op == IF shape_type = "Part::MultiFuse" THEN "fuse" ELSE "common"
                IN  IF Len(valid) >= 2
                    THEN refine(FoldShapes(op, valid[1], Tail(valid), not_done))
                    ELSE NoShape
          [] OTHER -> NoShape

\* CadDocument._reconstruct_occ_shape: [raised, shape]; shape = NoShape is
\* the None the code returns.
_reconstruct_occ_shape(obj, existing_shapes, fault) ==
    LET mine == fault.name = obj.name
        occ_shape == BuiltShape(obj, existing_shapes, mine /\ fault.kind = "not_done")
    IN  IF fault.kind = "unavailable"
        THEN [raised |-> FALSE, shape |-> NoShape]
        ELSE IF mine /\ fault.kind = "throw"
        THEN [raised |-> FALSE, shape |-> NoShape]
        ELSE IF occ_shape # NoShape
        THEN IF mine /\ fault.kind = "placement"
             THEN [raised |-> TRUE, shape |-> NoShape]
             ELSE [raised |-> FALSE,
                   shape |-> apply_placement(occ_shape, obj.parameters.Placement)]
        ELSE [raised |-> FALSE, shape |-> NoShape]

(***************************************************************************)
(* The service's shape cache and final objects.                            *)
(***************************************************************************)
EmptyCache == [n \in Names |-> NoShape]

RECURSIVE _build_shape_cache(_, _, _, _)
_build_shape_cache(cache, d, object_names, fault) ==
    IF object_names = <<>> THEN cache
    ELSE LET obj_name == Head(object_names)
             rest == Tail(object_names)
         IN  IF ShapeOf(cache, obj_name) # NoShape
             THEN _build_shape_cache(cache, d, rest, fault)
             ELSE IF ~check_exist(d, obj_name)
             THEN _build_shape_cache(cache, d, rest, fault)
             ELSE LET r == _reconstruct_occ_shape(get_object(d, obj_name), cache, fault)
                  IN  IF ~r.raised /\ r.shape # NoShape
                      THEN _build_shape_cache([cache EXCEPT ![obj_name] = r.shape],
                                              d, rest, fault)
                      ELSE _build_shape_cache(cache, d, rest, fault)

_identify_final_objects(d) ==
    LET visible == {d[i].name : i \in {j \in 1..Len(d) : d[j].visible}}
    IN  IF Len(d) > 0 /\ visible = {} THEN {d[Len(d)].name} ELSE visible

_is_intermediate_object(svc, obj_name) ==
    IF ~svc.options.skip_intermediate_objects THEN FALSE
    ELSE obj_name \notin svc._final_objects

(***************************************************************************)
(* Features.  geom stands for the geometry fields of a feature (position,  *)
(* radius, endpoints, ...): for a box and for the Torus feature the fields *)
(* themselves, otherwise the dimensions they are computed from.            *)
(***************************************************************************)
Feature(type, name, featureLevel, geom) ==
    [type |-> type, name |-> name, featureLevel |-> featureLevel,
     geom |-> geom, hash |-> EmptyHash]

\* a table of <<type, name suffix, featureLevel>> rows, as features
TableFeatures(obj, table) ==
    [i \in 1..Len(table) |->
        Feature(table[i][1], obj.name \o table[i][2], table[i][3],
                obj.parameters.Radius)]

corner_names ==
    << "bottom_left_back", "bottom_right_back", "bottom_right_front",
       "bottom_left_front", "top_left_back", "top_right_back",
       "top_right_front", "top_left_front" >>

\* the 8 corners of the box in local coordinates: the centre of the box is
\* the origin.  The model's dimensions are even, so that length/2 is exact.
local_corners(length, width, height) ==
    LET l == length \div 2
        w == width \div 2
        h == height \div 2
    IN  << <<-l, -w, -h>>, <<l, -w, -h>>, <<l, w, -h>>, <<-l, w, -h>>,
           <<-l, -w, h>>, <<l, -w, h>>, <<l, w, h>>, <<-l, w, h>> >>

\* edge definitions in which the last vertical edge joins corner 3 to itself
edge_definitions_degenerate ==
    << <<0, 1, "bottom_back">>, <<1, 2, "bottom_right">>,
       <<2, 3, "bottom_front">>, <<3, 0, "bottom_left">>,
       <<4, 5, "top_back">>, <<5, 6, "top_right">>,
       <<6, 7, "top_front">>, <<7, 4, "top_left">>,
       <<0, 4, "left_back">>, <<1, 5, "right_back">>,
       <<2, 6, "right_front">>, <<3, 3, "left_front">> >>

\* (start corner, end corner, name), the corners numbered from 0
edge_definitions ==
    << <<0, 1, "bottom_back">>, <<1, 2, "bottom_right">>,
       <<2, 3, "bottom_front">>, <<3, 0, "bottom_left">>,
       <<4, 5, "top_back">>, <<5, 6, "top_right">>,
       <<6, 7, "top_front">>, <<7, 4, "top_left">>,
       <<0, 4, "left_back">>, <<1, 5, "right_back">>,
       <<2, 6, "right_front">>, <<3, 7, "left_front">> >>

\* (name, corners, local normal)
face_definitions ==
    << <<"bottom", <<0, 1, 2, 3>>, <<0, 0, -1>> >>,
       <<"top", <<7, 6, 5, 4>>, <<0, 0, 1>> >>,
       <<"front", <<3, 2, 6, 7>>, <<0, 1, 0>> >>,
       <<"back", <<1, 0, 4, 5>>, <<0, -1, 0>> >>,
       <<"right", <<2, 1, 5, 6>>, <<1, 0, 0>> >>,
       <<"left", <<0, 3, 7, 4>>, <<-1, 0, 0>> >> >>

\* np.mean(corners, axis=0) of the four corners of a face
MeanOfFour(corners) ==
    LET sum == VecAdd(VecAdd(corners[1], corners[2]),
                      VecAdd(corners[3], corners[4]))
    IN  <<sum[1] \div 4, sum[2] \div 4, sum[3] \div 4>>

_extract_box_features(obj) ==
    LET params == obj.parameters
        placement == params.Placement
        rotation == _rotation_from_axis_angle(placement.Axis, placement.Angle)
        local == local_corners(params.Length, params.Width, params.Height)
        world_corners ==
            [i \in 1..8 |->
                VecAdd(_apply_rotation(rotation, local[i]), placement.Position)]
        bounds(face_name) ==
            IF face_name \in {"top", "bottom"}
            THEN [length |-> params.Length, width |-> params.Width]
            ELSE IF face_name \in {"front", "back"}
            THEN [length |-> params.Length, height |-> params.Height]
            ELSE [width |-> params.Width, height |-> params.Height]
        face_geom(face) ==
            [normal |-> _apply_rotation(rotation, face[3]),
             center |-> MeanOfFour([k \in 1..4 |-> world_corners[face[2][k] + 1]]),
             bounds |-> bounds(face[1])]
    IN  [i \in 1..8 |->
            Feature("Feature::Point", obj.name \o "_corner_" \o corner_names[i],
                    "low", [position |-> world_corners[i]])]
        \o [i \in 1..12 |->
              LET edge == edge_definitions[i]
              IN  Feature("Feature::Edge", obj.name \o "_edge_" \o edge[3], "low",
                          [start |-> world_corners[edge[1] + 1],
                           end |-> world_corners[edge[2] + 1]])]
        \o [i \in 1..12 |->
              LET face == face_definitions[(i + 1) \div 2]
              IN  IF i % 2 = 1
                  THEN Feature("Feature::Plane", obj.name \o "_plane_" \o face[1],
                               "low", face_geom(face))
                  ELSE Feature("Feature::Face", obj.name \o "_face_" \o face[1],
                               "low", face_geom(face))]

_extract_cylinder_features(obj) ==
    TableFeatures(obj,
        << <<"Feature::Point", "_bottom_center", "low">>,
           <<"Feature::Point", "_top_center", "low">>,
           <<"Feature::Edge", "_axis", "low">>,
           <<"Feature::Edge", "_surface_edge", "low">>,
           <<"Feature::Circle", "_bottom_circle", "low">>,
           <<"Feature::Circle", "_top_circle", "low">>,
           <<"Feature::Plane", "_top_plane", "low">>,
           <<"Feature::Plane", "_bottom_plane", "low">>,
           <<"Feature::Plane", "_tangent_plane", "low">>,
           <<"Feature::Cylinder", "_cylinder", "high">> >>)

\* a sphere extraction without the equatorial arc
_extract_sphere_features_without_arc(obj) ==
    TableFeatures(obj,
        << <<"Feature::Point", "_center", "low">>,
           <<"Feature::Point", "_surface_point", "low">>,
           <<"Feature::Plane", "_equatorial_plane", "low">>,
           <<"Feature::Plane", "_meridional_plane_1", "low">>,
           <<"Feature::Plane", "_meridional_plane_2", "low">>,
           <<"Feature::Sphere", "_sphere", "high">> >>)

_extract_sphere_features(obj) ==
    TableFeatures(obj,
        << <<"Feature::Point", "_center", "low">>,
           <<"Feature::Point", "_surface_point", "low">>,
           <<"Feature::Edge", "_equatorial_arc", "low">>,
           <<"Feature::Plane", "_equatorial_plane", "low">>,
           <<"Feature::Plane", "_meridional_plane_1", "low">>,
           <<"Feature::Plane", "_meridional_plane_2", "low">>,
           <<"Feature::Sphere", "_sphere", "high">> >>)

\* a / b for integers a >= 0 and b # 0; the cones of the model have
\* dimensions for which the division is exact
ExactQuotient(a, b) == IF b > 0 THEN a \div b ELSE -(a \div (-b))

\* the distance of the apex from the top centre instead of the bottom centre
apex_distance_from_top(radius1, radius2, height) ==
    IF radius1 # radius2
    THEN ExactQuotient(height * radius1, radius1 - radius2) - height
    ELSE 0

\* the apex location (where the radius becomes 0): height * radius1 /
\* (radius1 - radius2) along the axis, 0 for equal radii
apex_distance(radius1, radius2, height) ==
    IF radius1 # radius2
    THEN ExactQuotient(height * radius1, radius1 - radius2)
    ELSE 0

\* a unit vector perpendicular to the axis: axis x (1, 0, 0), or
\* axis x (0, 0, 1) when the axis is along x
perpendicular_to(actual_axis) ==
    IF Cross(actual_axis, <<1, 0, 0>>) # <<0, 0, 0>>
    THEN Cross(actual_axis, <<1, 0, 0>>)
    ELSE Cross(actual_axis, <<0, 0, 1>>)

\* _extract_cone_features: the default axis of a cone is the y axis.  The
\* centre of the axial plane (the midpoint of the axis) is left out.
_extract_cone_features(obj) ==
    LET params == obj.parameters
        placement == params.Placement
        rotation == _rotation_from_axis_angle(placement.Axis, placement.Angle)
        actual_axis == _apply_rotation(rotation, <<0, 1, 0>>)
        bottom_center == placement.Position
        apex_point ==
            VecAdd(bottom_center,
                   VecScale(apex_distance(params.Radius1, params.Radius2,
                                          params.Height), actual_axis))
        perp_vec1 == perpendicular_to(actual_axis)
        rim_point == VecAdd(bottom_center, VecScale(params.Radius1, perp_vec1))
    IN  << Feature("Feature::Point", obj.name \o "_apex", "low",
                   [position |-> apex_point]),
           Feature("Feature::Point", obj.name \o "_bottom_center", "low",
                   [position |-> bottom_center]),
           Feature("Feature::Point", obj.name \o "_rim_point", "low",
                   [position |-> rim_point]),
           Feature("Feature::Edge", obj.name \o "_axis", "low",
                   [start |-> bottom_center, end |-> apex_point]),
           Feature("Feature::Edge", obj.name \o "_generator", "low",
                   [start |-> apex_point, end |-> rim_point]),
           Feature("Feature::Plane", obj.name \o "_bottom_plane", "low",
                   [normal |-> VecScale(-1, actual_axis), center |-> bottom_center]),
           Feature("Feature::Plane", obj.name \o "_axial_plane", "low",
                   [normal |-> Cross(actual_axis, perp_vec1)]),
           Feature("Feature::Cone", obj.name \o "_cone", "high",
                   [position |-> placement.Position, axis |-> actual_axis,
                    radius1 |-> params.Radius1, radius2 |-> params.Radius2,
                    height |-> params.Height]) >>

\* a torus extraction that takes the main radius from Radius2 and the tube
\* from Radius1
_extract_torus_features_swapped(obj) ==
    LET params == obj.parameters
        placement == params.Placement
        radius == params.Radius2
        tube == params.Radius1
        rotation == _rotation_from_axis_angle(placement.Axis, placement.Angle)
        actual_axis == _apply_rotation(rotation, <<0, 0, 1>>)
        low(type, suffix) ==
            Feature(type, obj.name \o suffix, "low",
                    [center |-> placement.Position, axis |-> actual_axis,
                     radius |-> radius, tube |-> tube])
    IN  << low("Feature::Point", "_center"),
           low("Feature::Point", "_outer_point"),
           low("Feature::Point", "_inner_point"),
           low("Feature::Point", "_top_point"),
           low("Feature::Edge", "_major_circle_arc"),
           low("Feature::Edge", "_minor_circle_arc"),
           low("Feature::Plane", "_main_plane"),
           low("Feature::Plane", "_cross_section_1"),
           low("Feature::Plane", "_cross_section_2"),
           Feature("Feature::Torus", obj.name \o "_torus", "high",
                   [position |-> placement.Position, axis |-> actual_axis,
                    radius |-> radius, tube |-> tube]) >>

_extract_torus_features(obj) ==
    LET params == obj.parameters
        placement == params.Placement
        radius == params.Radius1
        tube == params.Radius2
        rotation == _rotation_from_axis_angle(placement.Axis, placement.Angle)
        actual_axis == _apply_rotation(rotation, <<0, 0, 1>>)
        low(type, suffix) ==
            Feature(type, obj.name \o suffix, "low",
                    [center |-> placement.Position, axis |-> actual_axis,
                     radius |-> radius, tube |-> tube])
    IN  << low("Feature::Point", "_center"),
           low("Feature::Point", "_outer_point"),
           low("Feature::Point", "_inner_point"),
           low("Feature::Point", "_top_point"),
           low("Feature::Edge", "_major_circle_arc"),
           low("Feature::Edge", "_minor_circle_arc"),
           low("Feature::Plane", "_main_plane"),
           low("Feature::Plane", "_cross_section_1"),
           low("Feature::Plane", "_cross_section_2"),
           Feature("Feature::Torus", obj.name \o "_torus", "high",
                   [position |-> placement.Position, axis |-> actual_axis,
                    radius |-> radius, tube |-> tube]) >>

_extract_from_parameters(obj) ==
    CASE obj.shape = "Part::Box" -> _extract_box_features(obj)
      [] obj.shape = "Part::Cylinder" -> _extract_cylinder_features(obj)
      [] obj.shape = "Part::Sphere" -> _extract_sphere_features(obj)
      [] obj.shape = "Part::Cone" -> _extract_cone_features(obj)
      [] obj.shape = "Part::Torus" -> _extract_torus_features(obj)
      [] OTHER -> <<>>

(***************************************************************************)
(* The BRep path.  The kernel's topology of a shape is a list of edges     *)
(* (curve kind) and a list of faces (surface kind); fail tells where the   *)
(* kernel raises while the edge or the face is processed.                  *)
(***************************************************************************)
TopoEdge(curve, radius) == [curve |-> curve, radius |-> radius, fail |-> "none"]

TopoFace(surface, radius) == [surface |-> surface, radius |-> radius, fail |-> "none"]

\* the toroidal face of a torus built by BRepPrimAPI_MakeTorus(Radius1,
\* Radius2) and moved by apply_placement: gp_Torus with its major and minor
\* radius, its location and the direction of its axis
TorusFace(shape) ==
    [surface |-> "torus", radius |-> shape.radius, fail |-> "none",
     MajorRadius |-> shape.radius, MinorRadius |-> shape.minor_radius,
     Location |-> IF shape.placed THEN shape.placement.Position ELSE <<0, 0, 0>>,
     Direction |-> IF shape.placed
                   THEN _apply_rotation(
                            _rotation_from_axis_angle(shape.placement.Axis,
                                                      shape.placement.Angle),
                            <<0, 0, 1>>)
                   ELSE <<0, 0, 1>>]

\* TopExp_Explorer over the shape: the edges and faces of the primitives it
\* is made of; a boolean result keeps those of its operands
RECURSIVE Topology(_)
Topology(shape) ==
    LET r == shape.radius
    IN  CASE shape.kind = "Part::Sphere" ->
                [edges |-> <<TopoEdge("arc", r)>>,
                 faces |-> <<TopoFace("sphere", r)>>]
          [] shape.kind = "Part::Cylinder" ->
                [edges |-> <<TopoEdge("circle", r), TopoEdge("line", r),
                             TopoEdge("circle", r)>>,
                 faces |-> <<TopoFace("cylinder", r), TopoFace("plane", r),
                             TopoFace("plane", r)>>]
          [] shape.kind = "Part::Cone" ->
                [edges |-> <<TopoEdge("circle", r), TopoEdge("line", r)>>,
                 faces |-> <<TopoFace("cone", r), TopoFace("plane", r)>>]
          [] shape.kind = "Part::Torus" ->
                [edges |-> <<TopoEdge("circle", r), TopoEdge("circle", r)>>,
                 faces |-> <<TorusFace(shape)>>]
          [] shape.kind = "Part::Box" ->
                [edges |-> [i \in 1..12 |-> TopoEdge("line", r)],
                 faces |-> [i \in 1..6 |-> TopoFace("plane", r)]]
          [] shape.kind \in {"cut", "fuse", "common"} ->
                LET t1 == Topology(shape.ops[1])
                    t2 == Topology(shape.ops[2])
                IN  [edges |-> t1.edges \o t2.edges, faces |-> t1.faces \o t2.faces]
          [] OTHER -> [edges |-> <<>>, faces |-> <<>>]

\* the edge loop of _extract_from_brep, from edge number edge_count on
RECURSIVE BrepEdgeFeatures(_, _, _)
BrepEdgeFeatures(obj_name, edges, edge_count) ==
    IF edges = <<>> THEN <<>>
    ELSE LET edge == Head(edges)
             n == ToString(edge_count)
             edge_name == obj_name \o "_edge_" \o n
             produced ==
                CASE edge.fail \in {"outer", "inner"} -> <<>>
                  [] edge.curve = "circle" /\ edge.fail = "partway" ->
                        <<Feature("Feature::Circle", obj_name \o "_circle_" \o n,
                                  "low", edge.radius)>>
                  [] edge.curve = "arc" /\ edge.fail = "partway" ->
                        <<Feature("Feature::Arc", obj_name \o "_arc_" \o n,
                                  "low", edge.radius)>>
                  [] edge.fail = "partway" -> <<>>
                  [] edge.curve = "line" ->
                        <<Feature("Feature::Edge", edge_name, "low", edge.radius)>>
                  [] edge.curve = "circle" ->
                        <<Feature("Feature::Circle", obj_name \o "_circle_" \o n,
                                  "low", edge.radius),
                          Feature("Feature::Point", obj_name \o "_circle_center_" \o n,
                                  "low", edge.radius)>>
                  [] edge.curve = "arc" ->
                        <<Feature("Feature::Arc", obj_name \o "_arc_" \o n,
                                  "low", edge.radius),
                          Feature("Feature::Point", obj_name \o "_circle_center_" \o n,
                                  "low", edge.radius)>>
                  [] OTHER ->
                        <<Feature("Feature::Edge", edge_name, "low", edge.radius)>>
         IN  produced \o
             BrepEdgeFeatures(obj_name, Tail(edges),
                              IF edge.fail = "outer" THEN edge_count ELSE edge_count + 1)

\* _extract_torus_from_brep
_extract_torus_from_brep(surface, obj_name) ==
    Feature("Feature::Torus", obj_name \o "_brep_torus", "high",
            [position |-> surface.Location, axis |-> surface.Direction,
             radius |-> surface.MajorRadius, tube |-> surface.MinorRadius])

\* a face loop without the try/except around one face: the failure of a
\* face ends the loop
RECURSIVE BrepFaceFeatures_ending_at_failure(_, _, _)
BrepFaceFeatures_ending_at_failure(obj_name, faces, face_count) ==
    IF faces = <<>> \/ Head(faces).fail # "none" THEN <<>>
    ELSE LET face == Head(faces)
             n == ToString(face_count)
             produced ==
                CASE face.surface = "cylinder" ->
                        <<Feature("Feature::Cylinder", obj_name \o "_brep_cylinder",
                                  "high", face.radius)>>
                  [] face.surface = "sphere" ->
                        <<Feature("Feature::Sphere", obj_name \o "_brep_sphere",
                                  "high", face.radius)>>
                  [] face.surface = "cone" ->
                        <<Feature("Feature::Cone", obj_name \o "_brep_cone",
                                  "high", face.radius)>>
                  [] face.surface = "torus" ->
                        <<_extract_torus_from_brep(face, obj_name)>>
                  [] face.surface = "plane" ->
                        <<Feature("Feature::Plane", obj_name \o "_plane_" \o n,
                                  "low", face.radius),
                          Feature("Feature::Face", obj_name \o "_face_" \o n,
                                  "low", face.radius)>>
                  [] OTHER -> <<>>
         IN  produced \o
             BrepFaceFeatures_ending_at_failure(obj_name, Tail(faces), face_count + 1)

\* the face loop of _extract_from_brep, from face number face_count on
RECURSIVE BrepFaceFeatures(_, _, _)
BrepFaceFeatures(obj_name, faces, face_count) ==
    IF faces = <<>> THEN <<>>
    ELSE LET face == Head(faces)
             n == ToString(face_count)
             plane == Feature("Feature::Plane", obj_name \o "_plane_" \o n,
                              "low", face.radius)
             produced ==
                CASE face.fail = "all" -> <<>>
                  [] face.surface = "cylinder" ->
                        <<Feature("Feature::Cylinder", obj_name \o "_brep_cylinder",
                                  "high", face.radius)>>
                  [] face.surface = "sphere" ->
                        <<Feature("Feature::Sphere", obj_name \o "_brep_sphere",
                                  "high", face.radius)>>
                  [] face.surface = "cone" ->
                        <<Feature("Feature::Cone", obj_name \o "_brep_cone",
                                  "high", face.radius)>>
                  [] face.surface = "torus" ->
                        <<_extract_torus_from_brep(face, obj_name)>>
                  [] face.surface = "plane" /\ face.fail = "partway" -> <<plane>>
                  [] face.surface = "plane" ->
                        <<plane,
                          Feature("Feature::Face", obj_name \o "_face_" \o n,
                                  "low", face.radius)>>
                  [] OTHER -> <<>>
         IN  produced \o
             BrepFaceFeatures(obj_name, Tail(faces),
                              IF face.fail = "none" THEN face_count + 1 ELSE face_count)

\* the edge loop and the face loop of _extract_from_brep
TopologyFeatures(obj_name, topo) ==
    BrepEdgeFeatures(obj_name, topo.edges, 0)
    \o BrepFaceFeatures(obj_name, topo.faces, 0)

\* the elements of a list with the kernel raising at one of them
FailingAt(elements, index, fail) ==
    [i \in 1..Len(elements) |->
        IF i = index THEN [elements[i] EXCEPT !.fail = fail] ELSE elements[i]]

\* the topology of the object the fault names, with the kernel raising
\* while its edge or its face number fault.index is processed
WithElementFault(obj_name, topo, fault) ==
    IF fault.name # obj_name THEN topo
    ELSE IF fault.kind = "edge"
    THEN [topo EXCEPT !.edges = FailingAt(topo.edges, fault.index, fault.fail)]
    ELSE IF fault.kind = "face"
    THEN [topo EXCEPT !.faces = FailingAt(topo.faces, fault.index, fault.fail)]
    ELSE topo

\* _extract_from_brep after the reconstruction r of the shape
BrepOfReconstructed(obj_name, r, fault) ==
    IF r.raised THEN [raised |-> TRUE, features |-> <<>>]
    ELSE IF r.shape = NoShape THEN [raised |-> FALSE, features |-> <<>>]
    ELSE [raised |-> FALSE,
          features |-> TopologyFeatures(obj_name,
                           WithElementFault(obj_name, Topology(r.shape), fault))]

\* _extract_from_brep: [raised, features]
_extract_from_brep(obj, _shape_cache, fault) ==
    IF fault.kind = "unavailable" THEN [raised |-> FALSE, features |-> <<>>]
    ELSE BrepOfReconstructed(obj.name,
                             _reconstruct_occ_shape(obj, _shape_cache, fault),
                             fault)

\* the outcome of an extraction path with the method that produced it
WithMethod(r, method) ==
    [raised |-> r.raised, features |-> r.features, method |-> method]

(***************************************************************************)
(* FeatureExtractionService.                                               *)
(***************************************************************************)
FeatureExtractionResult(object_name, features, extraction_method, hash, errors) ==
    [object_name |-> object_name, features |-> features,
     extraction_method |-> extraction_method, hash |-> hash, errors |-> errors]

NoResult == FeatureExtractionResult("", <<>>, "none", EmptyHash, <<>>)

allowed_feature_types(options) == _FEATURE_TYPE_SETS[options.extraction_level]

\* a filter that keeps every feature marked low, whatever the level
_filter_features_by_marker(options, features) ==
    LET low(f) == f.featureLevel = "low"
    IN  SelectSeq(features, low)

_filter_features(options, features) ==
    LET allowed(f) == f.type \in allowed_feature_types(options)
    IN  SelectSeq(features, allowed)

\* a stamping that writes the hash on the first feature only
StampHash_first_only(features, content_hash) ==
    [i \in 1..Len(features) |->
        IF i = 1 THEN [features[i] EXCEPT !.hash = content_hash] ELSE features[i]]

\* for feature in features: feature['hash'] = content_hash
StampHash(features, content_hash) ==
    [i \in 1..Len(features) |-> [features[i] EXCEPT !.hash = content_hash]]

\* FeatureExtractionService.__init__
NewFeatureExtractionService(d, options) ==
    [_shape_cache |-> EmptyCache, options |-> options,
     _final_objects |-> _identify_final_objects(d)]

\* the extraction strategy of extract_object_features: the parameter path
\* for a basic shape, the BRep path otherwise; [raised, features, method]
ExtractionStrategy(svc, obj, fault) ==
    IF obj.shape \in BASIC_SHAPES
    THEN [raised |-> FALSE, features |-> _extract_from_parameters(obj),
          method |-> "parameter"]
    ELSE WithMethod(_extract_from_brep(obj, svc._shape_cache, fault), "brep")

\* extract_object_features for an object that is not skipped: the stored
\* features when they are fresh, otherwise what the strategy extracted,
\* stamped with the hash and filtered
CachedOrExtracted(svc, obj, force_recompute, current_hash, extracted) ==
    LET stored == geometryFeaturesOf(obj)
    IN  IF ~force_recompute /\ stored # <<>> /\ current_hash = stored[1].hash
        THEN [raised |-> FALSE, error |-> "",
              result |-> FeatureExtractionResult(obj.name, stored, "cached",
                                                 current_hash, <<>>)]
        ELSE IF extracted.raised
        THEN [raised |-> TRUE, error |-> "kernel error", result |-> NoResult]
        ELSE [raised |-> FALSE, error |-> "",
              result |-> FeatureExtractionResult(
                            obj.name,
                            _filter_features(svc.options,
                                StampHash(extracted.features, current_hash)),
                            extracted.method, current_hash, <<>>)]

\* an extraction that answers an unknown name with an empty result
extract_object_features_unknown_as_empty(svc, d, obj_name, force_recompute, fault) ==
    IF ~check_exist(d, obj_name)
    THEN [raised |-> FALSE, error |-> "",
          result |-> FeatureExtractionResult(obj_name, <<>>, "parameter",
                                             EmptyHash, <<>>)]
    ELSE
    LET obj == get_object(d, obj_name)
    IN  IF _is_intermediate_object(svc, obj_name)
        THEN [raised |-> FALSE, error |-> "",
              result |-> FeatureExtractionResult(obj_name, <<>>, "parameter",
                                                 EmptyHash, <<>>)]
        ELSE CachedOrExtracted(svc, obj, force_recompute,
                               _compute_object_hash(obj),
                               ExtractionStrategy(svc, obj, fault))

\* extract_object_features: [raised, error, result]
extract_object_features(svc, d, obj_name, force_recompute, fault) ==
    IF ~check_exist(d, obj_name)
    THEN [raised |-> TRUE, error |-> "Object " \o obj_name \o " not found",
          result |-> NoResult]
    ELSE
    LET obj == get_object(d, obj_name)
    IN  IF _is_intermediate_object(svc, obj_name)
        THEN [raised |-> FALSE, error |-> "",
              result |-> FeatureExtractionResult(obj_name, <<>>, "parameter",
                                                 EmptyHash, <<>>)]
        ELSE CachedOrExtracted(svc, obj, force_recompute,
                               _compute_object_hash(obj),
                               ExtractionStrategy(svc, obj, fault))

\* a request: the objects argument, or no argument (None)
AllObjects == [given |-> FALSE, names |-> <<>>]

SeqsUpTo(S, n) == UNION {[1..k -> S] : k \in 0..n}

\* the requested lists the model passes: lists without repetition, of
\* existing and of unknown names, in any order
Requests ==
    {AllObjects} \cup
    [given : {TRUE},
     names : {s \in SeqsUpTo(Names, MaxRequest) :
                \A i, j \in 1..Len(s) : s[i] = s[j] => i = j}]

RequestedNames(d, request) == IF request.given THEN request.names ELSE objects(d)

\* a batch whose loop has no except clause: the first exception of an
\* object ends the call
extract_all_features_without_except(svc, d, request, force_recompute, fault) ==
    LET objs == RequestedNames(d, request)
        svc2 == [svc EXCEPT !._shape_cache =
                    _build_shape_cache(svc._shape_cache, d, objs, fault)]
        one(n) == extract_object_features(svc2, d, n, force_recompute, fault)
        failed == \E n \in SeqRange(objs) : one(n).raised
    IN  [svc |-> svc2,
         raised |-> failed,
         results |-> IF failed THEN <<>>
                     ELSE [n \in SeqRange(objs) |-> one(n).result]]

\* the body of the loop of extract_all_features: the result of the object,
\* or the error result its except clause builds from what was raised
ResultOrError(obj_name, r) ==
    IF r.raised
    THEN FeatureExtractionResult(obj_name, <<>>, "error", EmptyHash, <<r.error>>)
    ELSE r.result

\* extract_all_features: the results and the service after the call.  The
\* calls that can raise are inside a try (_build_shape_cache, and the loop
\* body whose except clause builds the error result), so nothing is raised.
extract_all_features(svc, d, request, force_recompute, fault) ==
    LET objs == RequestedNames(d, request)
        svc2 == [svc EXCEPT !._shape_cache =
                    _build_shape_cache(svc._shape_cache, d, objs, fault)]
        one(n) == extract_object_features(svc2, d, n, force_recompute, fault)
    IN  [svc |-> svc2,
         raised |-> FALSE,
         results |-> [n \in SeqRange(objs) |-> ResultOrError(n, one(n))]]

\* a save whose write-back also marks the written object visible, as
\* add_object does
save_showing_objects(d, extraction_level, force_recompute, fault) ==
    LET options == [extraction_level |-> extraction_level,
                    skip_intermediate_objects |-> TRUE]
        extractor == NewFeatureExtractionService(d, options)
        results == extract_all_features(extractor, d, AllObjects,
                                        force_recompute, fault).results
    IN  [i \in 1..Len(d) |->
            IF /\ i = _get_yobject_index_by_name(d, d[i].name)
               /\ results[d[i].name].features # <<>>
               /\ results[d[i].name].extraction_method # "error"
            THEN [d[i] EXCEPT !.geometryFeatures = results[d[i].name].features,
                              !.visible = TRUE]
            ELSE d[i]]

\* the write-back of save for one object: its map gets the features of a
\* result that has features and is not an error
WriteBack(obj_map, result) ==
    IF result.features # <<>> /\ result.extraction_method # "error"
    THEN [obj_map EXCEPT !.geometryFeatures = result.features]
    ELSE obj_map

\* CadDocument.save: extraction with a service of its own, then the
\* write-back of the features onto the object maps
save(d, extraction_level, force_recompute, fault) ==
    LET options == [extraction_level |-> extraction_level,
                    skip_intermediate_objects |-> TRUE]
        extractor == NewFeatureExtractionService(d, options)
        results == extract_all_features(extractor, d, AllObjects,
                                        force_recompute, fault).results
    IN  [i \in 1..Len(d) |->
            IF i = _get_yobject_index_by_name(d, d[i].name)
            THEN WriteBack(d[i], results[d[i].name])
            ELSE d[i]]

(***************************************************************************)
(* Document operations.                                                    *)
(***************************************************************************)
ObjectMap(name, shape, parameters) ==
    [name |-> name, shape |-> shape, parameters |-> parameters,
     visible |-> TRUE, geometryFeatures |-> <<>>]

\* CadDocument.add_object: appended, visible, unless the name exists
add_object(d, new_object) ==
    IF ~check_exist(d, new_object.name) THEN Append(d, new_object) ELSE d

\* CadDocument.set_visible (the name exists)
set_visible(d, name, value) ==
    [d EXCEPT ![_get_yobject_index_by_name(d, name)].visible = value]

\* CadDocument.remove
remove(d, name) ==
    LET index == _get_yobject_index_by_name(d, name)
    IN  IF index # 0
        THEN [i \in 1..(Len(d) - 1) |-> IF i < index THEN d[i] ELSE d[i + 1]]
        ELSE d

\* CadDocument.add_occ_shape: the map is appended, unless the name exists
add_occ_shape(d, shape_name, brepdata, placement) ==
    IF check_exist(d, shape_name) THEN d
    ELSE Append(d, [name |-> shape_name, shape |-> "Part::Any",
                    parameters |-> AnyParameters(brepdata, placement),
                    visible |-> TRUE, geometryFeatures |-> <<>>])

\* _get_boolean_operands / _get_operand with two names: no exception
operands_ok(d, shape1, shape2) ==
    Len(d) >= 2 /\ check_exist(d, shape1) /\ check_exist(d, shape2)

\* a boolean operation that leaves its operands visible
boolean_operation_without_hiding(d, shape, name, shape1, shape2) ==
    add_object(d, ObjectMap(name, shape,
                            IF shape = "Part::Cut" THEN CutParameters(shape1, shape2)
                            ELSE MultiParameters(shape1, shape2)))

\* cut, fuse, intersect: the operands are hidden, then the result is added
boolean_operation(d, shape, name, shape1, shape2) ==
    LET parameters == IF shape = "Part::Cut" THEN CutParameters(shape1, shape2)
                      ELSE MultiParameters(shape1, shape2)
    IN  add_object(set_visible(set_visible(d, shape1, FALSE), shape2, FALSE),
                   ObjectMap(name, shape, parameters))

\* an operand that is not given (None)
NoOperand == "None"

\* CadDocument._get_operand: a name must be in the document; None is the
\* object at default_idx, counted from the end of the list
_get_operand(d, shape, default_idx) ==
    IF shape = NoOperand
    THEN [raised |-> FALSE, shape |-> objects(d)[Len(d) + 1 - default_idx]]
    ELSE [raised |-> ~check_exist(d, shape), shape |-> shape]

\* CadDocument._get_boolean_operands: [raised, shape1, shape2]
_get_boolean_operands(d, shape1, shape2) ==
    IF Len(d) < 2
    THEN [raised |-> TRUE, shape1 |-> shape1, shape2 |-> shape2]
    ELSE LET o1 == _get_operand(d, shape1, 2)
             o2 == _get_operand(d, shape2, 1)
         IN  [raised |-> o1.raised \/ o2.raised,
              shape1 |-> o1.shape, shape2 |-> o2.shape]

\* cut / fuse / intersect with the operands as given: [raised, doc]
boolean_call(d, shape, name, shape1, shape2) ==
    LET operands == _get_boolean_operands(d, shape1, shape2)
    IN  IF operands.raised THEN [raised |-> TRUE, doc |-> d]
        ELSE [raised |-> FALSE,
              doc |-> boolean_operation(d, shape, name,
                                        operands.shape1, operands.shape2)]

\* CadDocument.rename (the document contains old_name): the object is added
\* again under the new name, then the old name is removed
rename(d, old_name, new_name) ==
    IF new_name = old_name THEN d
    ELSE LET new_obj == get_object(d, old_name)
         IN  remove(add_object(d, ObjectMap(new_name, new_obj.shape,
                                            new_obj.parameters)),
                    old_name)

(***************************************************************************)
(* The state machine: one document, one extraction service on it, and the  *)
(* record of the last extraction call.                                     *)
(***************************************************************************)
VARIABLES doc, svc, call, edits, changes

vars == <<doc, svc, call, edits, changes>>

NoCall ==
    [op |-> "none", request |-> AllObjects, obj_name |-> "",
     force_recompute |-> FALSE, fault |-> NoFault, raised |-> FALSE,
     results |-> <<>>, before |-> EmptyCache]

\* the options of the services the model constructs
Options == [extraction_level : {"standard"}, skip_intermediate_objects : BOOLEAN]

\* a fault of the kernel happens in the construction of an object that
\* exists and that the call visits
FaultApplies(d, object_names, fault) ==
    fault.name = "" \/
    (check_exist(d, fault.name) /\ fault.name \in SeqRange(object_names))

Init ==
    /\ doc = <<>>
    /\ svc = NewFeatureExtractionService(<<>>,
                [extraction_level |-> "standard", skip_intermediate_objects |-> TRUE])
    /\ call = NoCall
    /\ edits = 0
    /\ changes = 0

\* The calls the model makes on the document: add_sphere(name="a") and then
\* add_cylinder(name="b"), both with radius 1, and cut / fuse / intersect
\* with the result name "c" and the operands "a" and "b".
PrimitiveCalls == << <<"a", "Part::Sphere">>, <<"b", "Part::Cylinder">> >>

ResultNames == {"c"}

OperandPairs == {<<"a", "b">>}

\* the name a shared-document edit appends to a Shapes list
AppendedNames == {"a"}

\* add_sphere / add_cylinder
AddPrimitive ==
    \E k \in 1..Len(PrimitiveCalls) :
        LET c == PrimitiveCalls[k]
        IN  /\ call.op = "none"
            /\ edits < MaxEdits
            /\ \A j \in 1..(k - 1) : check_exist(doc, PrimitiveCalls[j][1])
            /\ doc' = add_object(doc, ObjectMap(c[1], c[2], PrimitiveParameters(1)))
            /\ doc' # doc
            /\ edits' = edits + 1
            /\ UNCHANGED <<svc, call, changes>>

\* cut / fuse / intersect; with too few objects or an unknown operand the
\* method raises before it changes anything
BooleanOperation ==
    \E shape \in BOOLEAN_OPERATIONS, name \in ResultNames, ops \in OperandPairs :
        /\ call.op = "none"
        /\ edits < MaxEdits
        /\ operands_ok(doc, ops[1], ops[2])
        /\ doc' = boolean_operation(doc, shape, name, ops[1], ops[2])
        /\ doc' # doc
        /\ edits' = edits + 1
        /\ UNCHANGED <<svc, call, changes>>

Remove ==
    \E name \in Names :
        /\ call.op = "none"
        /\ changes < MaxChanges
        /\ doc' = remove(doc, name)
        /\ doc' # doc
        /\ changes' = changes + 1
        /\ UNCHANGED <<svc, call, edits>>

SetVisible ==
    \E name \in Names, value \in BOOLEAN :
        /\ call.op = "none"
        /\ changes < MaxChanges
        /\ check_exist(doc, name)
        /\ doc' = set_visible(doc, name, value)
        /\ doc' # doc
        /\ changes' = changes + 1
        /\ UNCHANGED <<svc, call, edits>>

\* an edit of a dimension through the shared document
ModifyParameter ==
    \E i \in 1..Len(doc) :
        /\ call.op = "none"
        /\ changes < MaxChanges
        /\ doc[i].shape \in BASIC_SHAPES
        /\ doc[i].parameters.Radius < MaxRadius
        /\ doc' = [doc EXCEPT ![i].parameters.Radius = @ + 1]
        /\ changes' = changes + 1
        /\ UNCHANGED <<svc, call, edits>>

\* an edit of the operand list of a MultiFuse / MultiCommon through the
\* shared document
AppendOperand ==
    \E i \in 1..Len(doc), name \in AppendedNames :
        /\ call.op = "none"
        /\ changes < MaxChanges
        /\ doc[i].shape \in {"Part::MultiFuse", "Part::MultiCommon"}
        /\ Len(doc[i].parameters.Shapes) < MaxShapes
        /\ doc' = [doc EXCEPT ![i].parameters.Shapes = Append(@, name)]
        /\ changes' = changes + 1
        /\ UNCHANGED <<svc, call, edits>>

\* FeatureExtractionService(doc, options)
NewService ==
    \E options \in Options :
        /\ call.op = "none"
        /\ svc' = NewFeatureExtractionService(doc, options)
        /\ svc' # svc
        /\ UNCHANGED <<doc, call, edits, changes>>

\* the call of extract_object_features that is pending with the outcome r
ObjectCall(obj_name, force_recompute, fault, r) ==
    [op |-> "extract_object_features",
     request |-> [given |-> TRUE, names |-> <<obj_name>>],
     obj_name |-> obj_name,
     force_recompute |-> force_recompute, fault |-> fault,
     raised |-> r.raised,
     results |-> IF r.raised THEN <<>> ELSE [n \in {obj_name} |-> r.result],
     before |-> svc._shape_cache]

\* the call of extract_all_features that is pending with the outcome r, and
\* the service it leaves
BatchReturns(request, force_recompute, fault, r) ==
    /\ call' = [op |-> "extract_all_features", request |-> request,
                obj_name |-> "",
                force_recompute |-> force_recompute, fault |-> fault,
                raised |-> r.raised, results |-> r.results,
                before |-> svc._shape_cache]
    /\ svc' = r.svc

ExtractObject ==
    \E obj_name \in Names, force_recompute \in BOOLEAN, fault \in Faults :
        /\ call.op = "none"
        /\ FaultApplies(doc, <<obj_name>>, fault)
        /\ call' = ObjectCall(obj_name, force_recompute, fault,
                extract_object_features(svc, doc, obj_name, force_recompute, fault))
        /\ UNCHANGED <<doc, svc, edits, changes>>

ExtractAll ==
    \E request \in Requests, force_recompute \in BOOLEAN, fault \in Faults :
        /\ call.op = "none"
        /\ FaultApplies(doc, RequestedNames(doc, request), fault)
        /\ BatchReturns(request, force_recompute, fault,
                extract_all_features(svc, doc, request, force_recompute, fault))
        /\ UNCHANGED <<doc, edits, changes>>

\* CadDocument.save(path) with its default arguments
Save ==
    /\ call.op = "none"
    /\ changes < MaxChanges
    /\ doc' = save(doc, "standard", FALSE, NoFault)
    /\ doc' # doc
    /\ changes' = changes + 1
    /\ UNCHANGED <<svc, call, edits>>

\* the caller takes the result of the call
Return ==
    /\ call.op # "none"
    /\ call' = NoCall
    /\ UNCHANGED <<doc, svc, edits, changes>>

Next ==
    \/ AddPrimitive
    \/ BooleanOperation
    \/ Remove
    \/ SetVisible
    \/ ModifyParameter
    \/ AppendOperand
    \/ NewService
    \/ ExtractObject
    \/ ExtractAll
    \/ Save
    \/ Return

Spec == Init /\ [][Next]_vars

(***************************************************************************)
(* A second specification, of the extraction of each kind of shape at each *)
(* extraction level: the document holds one object "a" of any kind, with   *)
(* any dimensions and placement of the model, then a sphere "b" and a      *)
(* boolean "c" of the two; the kernel does not fail.                       *)
(***************************************************************************)
BoxDims == {2 * k : k \in 1..MaxHalfDim}

\* the cones <<Radius1, Radius2, Height>>: a pointed cone, a truncated cone,
\* equal radii and a top wider than the bottom; only dimensions for which
\* Height * Radius1 / (Radius1 - Radius2) is an integer
ConeDims ==
    {d \in {1, MaxMajor} \X {0, 1, MaxMajor} \X {ConeHeight} :
        d[1] = d[2] \/
        (d[3] * d[1]) % (IF d[1] > d[2] THEN d[1] - d[2] ELSE d[2] - d[1]) = 0}

\* placements: the default, a quarter turn about the x axis, a translation,
\* and a zero angle about the x axis
Placements ==
    {DefaultPlacement,
     [Position |-> <<0, 0, 0>>, Axis |-> <<1, 0, 0>>, Angle |-> 90],
     [Position |-> <<1, 0, 0>>, Axis |-> <<0, 0, 1>>, Angle |-> 0],
     [Position |-> <<0, 0, 0>>, Axis |-> <<1, 0, 0>>, Angle |-> 0]}

\* the objects add_box / add_torus / add_sphere / add_cylinder / add_cone
\* add under the name "a"
ShapesOfA ==
    {ObjectMap("a", "Part::Box", BoxParameters(l, w, h, pl)) :
        l \in BoxDims, w \in BoxDims, h \in BoxDims, pl \in Placements}
    \cup {ObjectMap("a", "Part::Torus", TorusParameters(r1, r2, pl)) :
        r1 \in 1..MaxMajor, r2 \in 1..MaxRadius, pl \in Placements}
    \cup {ObjectMap("a", "Part::Cone", ConeParameters(d[1], d[2], d[3], pl)) :
        d \in ConeDims, pl \in Placements}
    \cup {ObjectMap("a", kind, PrimitiveParameters(1)) :
        kind \in {"Part::Sphere", "Part::Cylinder"}}

AllOptions ==
    [extraction_level : ExtractionLevel, skip_intermediate_objects : BOOLEAN]

\* add_box ... add_cone with the name "a", then add_sphere(name="b")
AddShape ==
    \E new_object \in ShapesOfA \cup
                      {ObjectMap("b", "Part::Sphere", PrimitiveParameters(1))} :
        /\ call.op = "none"
        /\ edits < MaxEdits
        /\ new_object.name = "b" => check_exist(doc, "a")
        /\ doc' = add_object(doc, new_object)
        /\ doc' # doc
        /\ edits' = edits + 1
        /\ UNCHANGED <<svc, call, changes>>

\* add_occ_shape(shape, name="a") with each placement
AddOccShape ==
    \E placement \in Placements :
        /\ call.op = "none"
        /\ edits < MaxEdits
        /\ doc' = add_occ_shape(doc, "a", "brep text", placement)
        /\ doc' # doc
        /\ edits' = edits + 1
        /\ UNCHANGED <<svc, call, changes>>

\* FeatureExtractionService(doc, options) at each level
NewServiceAtLevel ==
    \E options \in AllOptions :
        /\ call.op = "none"
        /\ svc' = NewFeatureExtractionService(doc, options)
        /\ svc' # svc
        /\ UNCHANGED <<doc, call, edits, changes>>

\* extract_object_features(obj_name)
ExtractShape ==
    \E obj_name \in Names :
        /\ call.op = "none"
        /\ call' = ObjectCall(obj_name, FALSE, NoFault,
                extract_object_features(svc, doc, obj_name, FALSE, NoFault))
        /\ UNCHANGED <<doc, svc, edits, changes>>

\* extract_all_features()
ExtractShapes ==
    /\ call.op = "none"
    /\ BatchReturns(AllObjects, FALSE, NoFault,
            extract_all_features(svc, doc, AllObjects, FALSE, NoFault))
    /\ UNCHANGED <<doc, edits, changes>>

ShapeNext ==
    \/ AddShape
    \/ AddOccShape
    \/ BooleanOperation
    \/ NewServiceAtLevel
    \/ ExtractShape
    \/ ExtractShapes
    \/ Return

ShapeSpec == Init /\ [][ShapeNext]_vars

(***************************************************************************)
(* A third specification, of the BRep path when the kernel raises while    *)
(* one edge or one face is processed: the document holds a solid "a", a    *)
(* sphere "b" and a boolean "c" of the two, extract_all_features() fills   *)
(* the shape cache, and the fault of a later extract_object_features names *)
(* "c", the edge or the face and the place of the failure:                 *)
(*   outer    (edge) before the branch on the curve type                   *)
(*   inner    (edge) in the branch, before its first feature is appended   *)
(*   all      (face) before the first feature of the face is appended      *)
(*   partway  after the first feature of the edge or face is appended      *)
(***************************************************************************)
SolidsOfA ==
    {ObjectMap("a", "Part::Box", BoxParameters(2, 2, 2, DefaultPlacement)),
     ObjectMap("a", "Part::Torus", TorusParameters(1, 1, DefaultPlacement)),
     ObjectMap("a", "Part::Cone", ConeParameters(1, 0, ConeHeight, DefaultPlacement)),
     ObjectMap("a", "Part::Sphere", PrimitiveParameters(1)),
     ObjectMap("a", "Part::Cylinder", PrimitiveParameters(1))}

ElementFaults ==
    [name : {"c"}, kind : {"edge"}, index : 1..MaxElement,
     fail : {"outer", "inner", "partway"}]
    \cup [name : {"c"}, kind : {"face"}, index : 1..MaxElement,
          fail : {"all", "partway"}]

\* add_box ... add_cone with the name "a", then add_sphere(name="b")
AddSolid ==
    \E new_object \in SolidsOfA \cup
                      {ObjectMap("b", "Part::Sphere", PrimitiveParameters(1))} :
        /\ call.op = "none"
        /\ edits < MaxEdits
        /\ new_object.name = "b" => check_exist(doc, "a")
        /\ doc' = add_object(doc, new_object)
        /\ doc' # doc
        /\ edits' = edits + 1
        /\ UNCHANGED <<svc, call, changes>>

\* extract_object_features(obj_name) while the kernel raises at one edge
\* or one face of the object
ExtractFailing ==
    \E obj_name \in Names, fault \in ElementFaults :
        /\ call.op = "none"
        /\ FaultApplies(doc, <<obj_name>>, fault)
        /\ call' = ObjectCall(obj_name, FALSE, fault,
                extract_object_features(svc, doc, obj_name, FALSE, fault))
        /\ UNCHANGED <<doc, svc, edits, changes>>

BrepNext ==
    \/ AddSolid
    \/ BooleanOperation
    \/ NewServiceAtLevel
    \/ ExtractShapes
    \/ ExtractFailing
    \/ Return

BrepSpec == Init /\ [][BrepNext]_vars

(***************************************************************************)
(* A fourth specification, of stored features and later edits: the         *)
(* document of the first specification, save() any number of times, and    *)
(* the edits of a dimension; the kernel does not fail.                     *)
(***************************************************************************)
\* CadDocument.save(path) with its default arguments
SaveFeatures ==
    /\ call.op = "none"
    /\ doc' = save(doc, "standard", FALSE, NoFault)
    /\ doc' # doc
    /\ UNCHANGED <<svc, call, edits, changes>>

CacheNext ==
    \/ AddPrimitive
    \/ BooleanOperation
    \/ NewService
    \/ SaveFeatures
    \/ ModifyParameter
    \/ ExtractShape
    \/ ExtractShapes
    \/ Return

CacheSpec == Init /\ [][CacheNext]_vars

(***************************************************************************)
(* A fifth specification, of the service on a document whose get_object    *)
(* returns the stored object itself, geometryFeatures included, as the     *)
(* MockCadDocument of tests/test_feature_extraction.py does: the caller    *)
(* adds objects, stores features on an object, edits a dimension and       *)
(* extracts at each level.                                                 *)
(***************************************************************************)
\* MockJCadObject(name, shape, parameters)
MockObjects ==
    {ObjectMap("a", "Part::Sphere", PrimitiveParameters(1)),
     ObjectMap("b", "Part::Cylinder", PrimitiveParameters(1))}

\* MockCadDocument.add_object: self.objects[obj.name] = obj
mock_add_object(d, obj) ==
    IF check_exist(d, obj.name)
    THEN [i \in 1..Len(d) |-> IF d[i].name = obj.name THEN obj ELSE d[i]]
    ELSE Append(d, obj)

\* extract_object_features after get_object returned obj
ExtractionOf(extractor, obj, force_recompute, fault) ==
    IF _is_intermediate_object(extractor, obj.name)
    THEN [raised |-> FALSE, error |-> "",
          result |-> FeatureExtractionResult(obj.name, <<>>, "parameter",
                                             EmptyHash, <<>>)]
    ELSE CachedOrExtracted(extractor, obj, force_recompute,
                           _compute_object_hash(obj),
                           ExtractionStrategy(extractor, obj, fault))

\* extract_object_features on a MockCadDocument: get_object is
\* self.objects.get(name)
mock_extract_object_features(extractor, d, obj_name, force_recompute) ==
    IF ~check_exist(d, obj_name)
    THEN [raised |-> TRUE, error |-> "Object " \o obj_name \o " not found",
          result |-> NoResult]
    ELSE ExtractionOf(extractor, _get_yobject_by_name(d, obj_name), force_recompute,
                      NoFault)

\* features[0]['hash'] = current_hash
WithFirstHash(features, current_hash) ==
    [i \in 1..Len(features) |->
        IF i = 1 THEN [features[i] EXCEPT !.hash = current_hash] ELSE features[i]]

\* the feature lists a caller stores on an object: what the extractor of
\* its kind gives, with the hash on the first feature, and the features of
\* an extraction result at each level
StoredChoices(obj) ==
    {WithFirstHash(_extract_from_parameters(obj), _compute_object_hash(obj))}
    \cup {_filter_features(
              [extraction_level |-> level, skip_intermediate_objects |-> TRUE],
              StampHash(_extract_from_parameters(obj), _compute_object_hash(obj))) :
          level \in ExtractionLevel}

MockAdd ==
    \E obj \in MockObjects :
        /\ call.op = "none"
        /\ edits < MaxEdits
        /\ doc' = mock_add_object(doc, obj)
        /\ doc' # doc
        /\ edits' = edits + 1
        /\ UNCHANGED <<svc, call, changes>>

\* obj.geometryFeatures = features
MockStore ==
    \E i \in 1..Len(doc) :
        \E features \in StoredChoices(doc[i]) :
            /\ call.op = "none"
            /\ doc' = [doc EXCEPT ![i].geometryFeatures = features]
            /\ doc' # doc
            /\ UNCHANGED <<svc, call, edits, changes>>

\* extract_object_features(obj_name, force_recompute)
MockExtract ==
    \E obj_name \in Names, force_recompute \in BOOLEAN :
        /\ call.op = "none"
        /\ call' = ObjectCall(obj_name, force_recompute, NoFault,
                mock_extract_object_features(svc, doc, obj_name, force_recompute))
        /\ UNCHANGED <<doc, svc, edits, changes>>

MockNext ==
    \/ MockAdd
    \/ MockStore
    \/ ModifyParameter
    \/ NewServiceAtLevel
    \/ MockExtract
    \/ Return

MockSpec == Init /\ [][MockNext]_vars

(***************************************************************************)
(* A sixth specification, of the document operations alone: add_box ...    *)
(* add_torus, cut / fuse / intersect with any result name and any operands *)
(* (a name, or None for the default), and rename.  call holds the last     *)
(* operation, its arguments and the document before it.                    *)
(***************************************************************************)
\* the name and the kind of object of each add call of the model
AddCalls ==
    {<<"a", "Part::Box", BoxParameters(2, 2, 2, DefaultPlacement)>>,
     <<"a", "Part::Sphere", PrimitiveParameters(1)>>,
     <<"b", "Part::Cylinder", PrimitiveParameters(1)>>,
     <<"b", "Part::Cone", ConeParameters(1, 0, ConeHeight, DefaultPlacement)>>,
     <<"c", "Part::Torus", TorusParameters(1, 1, DefaultPlacement)>>}

\* the operands of the boolean operations of the model: two objects, the
\* same object twice, the defaults, and a default after a name
OperandChoices ==
    {<<"a", "b">>, <<"a", "a">>, <<"b", "c">>, <<"c", "a">>,
     <<NoOperand, NoOperand>>, <<"a", NoOperand>>}

DocCall(op, shape, name, shape1, shape2, raised) ==
    [op |-> op, shape |-> shape, name |-> name, shape1 |-> shape1,
     shape2 |-> shape2, raised |-> raised, before |-> doc]

\* the boolean operation returned r
DocBooleanReturns(shape, name, shape1, shape2, r) ==
    /\ doc' = r.doc
    /\ call' = DocCall("boolean", shape, name, shape1, shape2, r.raised)

\* add_box / add_sphere / add_cylinder / add_cone / add_torus
DocAdd ==
    \E c \in AddCalls :
        /\ call.op = "none"
        /\ doc' = add_object(doc, ObjectMap(c[1], c[2], c[3]))
        /\ call' = DocCall("add", c[2], c[1], "", "", FALSE)
        /\ UNCHANGED <<svc, edits, changes>>

\* cut / fuse / intersect
DocBoolean ==
    \E shape \in BOOLEAN_OPERATIONS, name \in Names, ops \in OperandChoices :
        /\ call.op = "none"
        /\ DocBooleanReturns(shape, name, ops[1], ops[2],
                             boolean_call(doc, shape, name, ops[1], ops[2]))
        /\ UNCHANGED <<svc, edits, changes>>

\* rename(old_name, new_name) of an object of the document
DocRename ==
    \E old_name \in Names, new_name \in Names :
        /\ call.op = "none"
        /\ changes < MaxChanges
        /\ check_exist(doc, old_name)
        /\ doc' = rename(doc, old_name, new_name)
        /\ call' = DocCall("rename", "", old_name, new_name, "", FALSE)
        /\ changes' = changes + 1
        /\ UNCHANGED <<svc, edits>>

DocNext ==
    \/ DocAdd
    \/ DocBoolean
    \/ DocRename
    \/ Return

DocSpec == Init /\ [][DocNext]_vars

(***************************************************************************)
(* Properties.  An extraction call is judged in the state in which its     *)
(* result is pending: call holds the arguments, the kernel fault, what was *)
(* raised or returned and the shape cache before the call; svc holds the   *)
(* service after the call.                                                 *)
(***************************************************************************)

\* the names an object references as Base, Tool or in its Shapes list
Operands(obj) ==
    IF obj.shape = "Part::Cut" THEN {obj.parameters.Base, obj.parameters.Tool}
    ELSE IF obj.shape \in {"Part::MultiFuse", "Part::MultiCommon"}
    THEN SeqRange(obj.parameters.Shapes)
    ELSE {}

\* C1: extract_all_features never raises, and the key set of the map it
\* returns is exactly the set of requested names (all names of the document
\* when objects is omitted), whatever objects are requested.
C1_BatchOneResultPerRequestedName ==
    call.op = "extract_all_features" =>
        /\ ~call.raised
        /\ DOMAIN call.results = SeqRange(RequestedNames(doc, call.request))

\* a batch that asked for an unknown name and for an existing object whose
\* extraction failed, and returned an error result for each
C1_Witness ==
    /\ call.op = "extract_all_features"
    /\ call.request.given
    /\ ~call.raised
    /\ \E n, m \in DOMAIN call.results :
          /\ ~check_exist(doc, n)
          /\ check_exist(doc, m)
          /\ call.results[m].extraction_method = "error"

\* the requested list without one name
Without(names, n) == SelectSeq(names, LAMBDA x : x # n)

\* C2: in a batch, a requested name that is not in the document gets a
\* result with method error, no features and a non-empty errors list, and
\* the other requested names get the results they get in the same batch
\* without the unknown name.
C2_UnknownNameIsAnErrorResult ==
    (call.op = "extract_all_features" /\ call.request.given) =>
        \A n \in SeqRange(call.request.names) :
            ~check_exist(doc, n) =>
                /\ n \in DOMAIN call.results
                /\ call.results[n].extraction_method = "error"
                /\ call.results[n].features = <<>>
                /\ call.results[n].errors # <<>>
                /\ LET other ==
                          extract_all_features(
                              [svc EXCEPT !._shape_cache = call.before], doc,
                              [given |-> TRUE,
                               names |-> Without(call.request.names, n)],
                              call.force_recompute, call.fault).results
                   IN  \A m \in DOMAIN other :
                          m \in DOMAIN call.results /\ call.results[m] = other[m]

\* a batch over an unknown name and an existing object that returned
\* features for the existing one
C2_Witness ==
    /\ call.op = "extract_all_features"
    /\ call.request.given
    /\ \E n, m \in DOMAIN call.results :
          /\ ~check_exist(doc, n)
          /\ call.results[n].extraction_method = "error"
          /\ check_exist(doc, m)
          /\ call.results[m].features # <<>>

\* C3: extract_object_features raises exactly when the name is not in the
\* document; for an existing object no failure is raised to the caller.
C3_RaisesOnlyForUnknownName ==
    call.op = "extract_object_features" =>
        (call.raised <=> ~check_exist(doc, call.obj_name))

\* C4: for a non-intermediate object the result is tagged cached and reuses
\* the stored features if and only if force_recompute is false, the object
\* has stored features and their hash is the fresh content hash; otherwise
\* the result is tagged parameter or brep and has no errors.
C4_CachedIffStoredAndFresh ==
    ( /\ call.op = "extract_object_features"
      /\ ~call.raised
      /\ ~_is_intermediate_object(svc, call.obj_name) ) =>
        LET stored == geometryFeaturesOf(_get_yobject_by_name(doc, call.obj_name))
            result == call.results[call.obj_name]
            fresh  == /\ ~call.force_recompute
                      /\ stored # <<>>
                      /\ stored[1].hash =
                            _compute_object_hash(get_object(doc, call.obj_name))
        IN  /\ fresh <=> (result.extraction_method = "cached" /\ result.features = stored)
            /\ ~fresh => /\ result.extraction_method \in {"parameter", "brep"}
                         /\ result.errors = <<>>

\* C5: a second extraction of an existing non-intermediate object, straight
\* after a first one, both with force_recompute false, is tagged cached and
\* returns the features of the first.
C5_SecondCallIsCached ==
    ( /\ call.op = "extract_object_features"
      /\ ~call.raised
      /\ ~call.force_recompute
      /\ call.fault = NoFault
      /\ ~_is_intermediate_object(svc, call.obj_name) ) =>
        LET second == extract_object_features(svc, doc, call.obj_name, FALSE, NoFault)
        IN  /\ ~second.raised
            /\ second.result.extraction_method = "cached"
            /\ second.result.features = call.results[call.obj_name].features

\* the (shapeKind, parameters) pair of a stored object
KindAndParameters(obj) == <<obj.shape, model_dump(obj.shape, obj.parameters)>>

\* the objects that differ from obj in one parameter of its kind
ParameterEdits(obj) ==
    LET turned == [obj.parameters.Placement EXCEPT !.Angle = @ + 90]
        common == {[obj EXCEPT !.parameters.Placement = turned]}
    IN  IF obj.shape \in BASIC_SHAPES
        THEN common \cup {[obj EXCEPT !.parameters.Radius = r] :
                            r \in (1..(MaxRadius + 1)) \ {obj.parameters.Radius}}
        ELSE IF obj.shape = "Part::Cut"
        THEN common \cup {[obj EXCEPT !.parameters.Refine = ~@]}
                    \cup {[obj EXCEPT !.parameters.Base = n] :
                            n \in Names \ {obj.parameters.Base}}
                    \cup {[obj EXCEPT !.parameters.Tool = n] :
                            n \in Names \ {obj.parameters.Tool}}
        ELSE common \cup {[obj EXCEPT !.parameters.Refine = ~@]}
                    \cup {[obj EXCEPT !.parameters.Shapes = Append(@, n)] : n \in Names}

\* C6: the content hash is a function of the (shapeKind, parameters) pair
\* and distinguishes pairs.  Of the object an extraction hashes: two objects of the document have the same hash
\* exactly when they have the same pair; a change of one parameter of an
\* object changes its hash; a change of its name, its visibility or its
\* stored features, or of a parameter of another object, does not.
C6_HashFollowsKindAndParameters ==
    (call.op = "extract_object_features" /\ ~call.raised) =>
        LET i   == _get_yobject_index_by_name(doc, call.obj_name)
            obj == doc[i]
            h   == _compute_object_hash(get_object(doc, obj.name))
        IN  /\ call.results[obj.name].hash \in {h, EmptyHash}
            /\ h = _compute_object_hash(obj)
            /\ \A j \in 1..Len(doc) :
                  (_compute_object_hash(doc[j]) = h)
                      <=> (KindAndParameters(doc[j]) = KindAndParameters(obj))
            /\ \A e \in ParameterEdits(obj) : _compute_object_hash(e) # h
            /\ \A n \in Names : _compute_object_hash([obj EXCEPT !.name = n]) = h
            /\ _compute_object_hash([obj EXCEPT !.visible = ~@]) = h
            /\ _compute_object_hash([obj EXCEPT !.geometryFeatures = <<>>]) = h
            /\ \A j \in (1..Len(doc)) \ {i} :
                  \A e \in ParameterEdits(doc[j]) :
                      _compute_object_hash(get_object([doc EXCEPT ![j] = e], obj.name)) = h

\* a hidden object with stored features whose result carries its hash,
\* next to an operation object and a second primitive
C6_Witness ==
    /\ call.op = "extract_object_features"
    /\ ~call.raised
    /\ Len(doc) = 3
    /\ \E i \in 1..Len(doc) :
          /\ doc[i].name = call.obj_name
          /\ doc[i].shape \in BASIC_SHAPES
          /\ ~doc[i].visible
          /\ doc[i].geometryFeatures # <<>>
          /\ call.results[call.obj_name].hash = _compute_object_hash(doc[i])

\* C7: while an operand of a boolean object is not in the shape cache,
\* resolving the object gives no shape and its extraction returns no
\* features and does not raise; with all operands in the cache and a
\* working kernel, resolving it gives a shape.
C7_MissingOperandThenCachedOperand ==
    ( /\ call.op = "extract_object_features"
      /\ check_exist(doc, call.obj_name)
      /\ get_object(doc, call.obj_name).shape \in BOOLEAN_OPERATIONS
      /\ ~_is_intermediate_object(svc, call.obj_name) ) =>
        LET obj     == get_object(doc, call.obj_name)
            missing == \E o \in Operands(obj) : ShapeOf(svc._shape_cache, o) = NoShape
            r       == _reconstruct_occ_shape(obj, svc._shape_cache, call.fault)
        IN  /\ missing => /\ ~call.raised
                          /\ call.results[call.obj_name].features = <<>>
                          /\ ~r.raised
                          /\ r.shape = NoShape
            /\ (~missing /\ call.fault = NoFault) => (~r.raised /\ r.shape # NoShape)

\* every reference of the document points to an earlier object
ReferencesPointEarlier(d) ==
    \A i \in 1..Len(d) :
        \A o \in Operands(d[i]) : \E j \in 1..(i - 1) : d[j].name = o

\* C8: with a working kernel and a document whose references point to
\* earlier objects, after the cache pass of a batch every requested boolean
\* object has all its operands in the shape cache, for any requested list.
C8_BatchCachesOperandsFirst ==
    ( /\ call.op = "extract_all_features"
      /\ call.fault = NoFault
      /\ ReferencesPointEarlier(doc) ) =>
        \A n \in SeqRange(RequestedNames(doc, call.request)) :
            (check_exist(doc, n) /\ get_object(doc, n).shape \in BOOLEAN_OPERATIONS) =>
                \A o \in Operands(get_object(doc, n)) :
                    ShapeOf(svc._shape_cache, o) # NoShape

\* the shapes a service constructed now caches in a batch over the document
FreshShapes(d) == _build_shape_cache(EmptyCache, d, objects(d), NoFault)

\* an earlier call of the service cached object n, and the document has
\* since lost n or changed the dimension of the primitive n
ChangedSinceCached(cache, d, n) ==
    /\ ShapeOf(cache, n) # NoShape
    /\ \/ ~check_exist(d, n)
       \/ /\ get_object(d, n).shape \in BASIC_SHAPES
          /\ ShapeOf(cache, n) # ShapeOf(FreshShapes(d), n)

\* C9: when the document has changed since an earlier call of the same
\* service, the shape cache and the final objects the next call uses are
\* those of the changed document.
C9_CacheAndFinalsFollowTheDocument ==
    ( /\ call.op # "none"
      /\ ~call.raised
      /\ \E n \in Names : ChangedSinceCached(call.before, doc, n) ) =>
        /\ svc._final_objects = _identify_final_objects(doc)
        /\ \A n \in Names : ~ChangedSinceCached(svc._shape_cache, doc, n)

\* C10: a Cut, MultiFuse or MultiCommon object one of whose referenced
\* names is not in the shape cache resolves to no shape, without an
\* exception, whatever the number of its operands.  It is stated of the
\* objects the call visits, with the cache the call leaves.
C10_AnyMissingReferenceGivesNoShape ==
    call.op # "none" =>
        \A i \in 1..Len(doc) :
            ( /\ doc[i].name \in SeqRange(RequestedNames(doc, call.request))
              /\ doc[i].shape \in BOOLEAN_OPERATIONS
              /\ \E o \in Operands(doc[i]) : ShapeOf(svc._shape_cache, o) = NoShape ) =>
                LET r == _reconstruct_occ_shape(get_object(doc, doc[i].name),
                                                svc._shape_cache, call.fault)
                IN  ~r.raised /\ r.shape = NoShape

\* C11: when the kernel's boolean operation fails (does not converge, or
\* throws) while a batch resolves a Cut, MultiFuse or MultiCommon object
\* whose operands are resolved, that object gets no shape, its extracted
\* features are empty, and the batch returns a result for every requested
\* name.
C11_FailedBooleanHasNoShapeAndNoFeatures ==
    ( /\ call.op = "extract_all_features"
      /\ call.fault.kind \in {"throw", "not_done"}
      /\ check_exist(doc, call.fault.name)
      /\ get_object(doc, call.fault.name).shape \in BOOLEAN_OPERATIONS
      /\ ShapeOf(call.before, call.fault.name) = NoShape
      /\ \A o \in Operands(get_object(doc, call.fault.name)) :
            ShapeOf(svc._shape_cache, o) # NoShape ) =>
        /\ ShapeOf(svc._shape_cache, call.fault.name) = NoShape
        /\ call.results[call.fault.name].features = <<>>
        /\ DOMAIN call.results = SeqRange(RequestedNames(doc, call.request))

\* the result of the skip branch of extract_object_features
IsSkipped(result) ==
    result.extraction_method = "parameter" /\ result.hash = EmptyHash

HighLevelTypes ==
    {"Feature::Cylinder", "Feature::Sphere", "Feature::Cone", "Feature::Torus"}

\* C12: with intermediate-skipping enabled an object is skipped exactly when
\* it is not final, the final objects being the visible objects of the
\* document, or its last object when none is visible; a skipped result is
\* empty, tagged parameter and has no errors, so that the result of an
\* intermediate object holds no high-level feature; with skipping disabled
\* no object is skipped.
C12_SkippedIffNotFinal ==
    (call.op # "none" /\ ~call.raised) =>
        \A n \in DOMAIN call.results :
            check_exist(doc, n) =>
                LET result == call.results[n]
                    final == n \in _identify_final_objects(doc)
                IN  /\ IsSkipped(result) <=>
                            (svc.options.skip_intermediate_objects /\ ~final)
                    /\ IsSkipped(result) =>
                            result.features = <<>> /\ result.errors = <<>>
                    /\ (svc.options.skip_intermediate_objects /\ ~final) =>
                            \A i \in 1..Len(result.features) :
                                result.features[i].type \notin HighLevelTypes

\* the features the parameter path or the BRep path produces for an object
\* in the recorded call, stamped, before the level filter
ProducedFeatures(obj) ==
    StampHash(IF obj.shape \in BASIC_SHAPES
              THEN _extract_from_parameters(obj)
              ELSE _extract_from_brep(obj, svc._shape_cache, call.fault).features,
              _compute_object_hash(obj))

\* a freshly computed result: tagged parameter or brep, and not skipped
IsFresh(result) ==
    result.extraction_method \in {"parameter", "brep"} /\ ~IsSkipped(result)

\* C13: at each extraction level the freshly computed result of an object
\* that is not skipped holds every high-level feature (Cylinder, Sphere,
\* Cone, Torus) that the parameter path or the BRep path produced.
C13_LevelKeepsHighLevelFeatures ==
    (call.op # "none" /\ ~call.raised) =>
        \A n \in DOMAIN call.results :
            (check_exist(doc, n) /\ IsFresh(call.results[n])) =>
                LET produced == ProducedFeatures(get_object(doc, n))
                IN  \A i \in 1..Len(produced) :
                        produced[i].type \in HighLevelTypes =>
                            produced[i] \in SeqRange(call.results[n].features)

LowLevelTypes ==
    {"Feature::Point", "Feature::Edge", "Feature::Plane", "Feature::Circle",
     "Feature::Arc", "Feature::Face"}

\* the types the statement allows at each level
StatedAllowedTypes(level) ==
    CASE level = "minimal" -> {"Feature::Circle", "Feature::Plane"}
      [] level = "standard" ->
            {"Feature::Circle", "Feature::Arc", "Feature::Plane", "Feature::Point"}
      [] level = "full" -> LowLevelTypes

OfTypes(features, types) ==
    LET in_types(f) == f.type \in types
    IN  SelectSeq(features, in_types)

RECURSIVE IsSubsequence(_, _)
IsSubsequence(s, t) ==
    IF s = <<>> THEN TRUE
    ELSE IF t = <<>> THEN FALSE
    ELSE IF Head(s) = Head(t) THEN IsSubsequence(Tail(s), Tail(t))
    ELSE IsSubsequence(s, Tail(t))

\* the features of the result the recorded call gives for n when the
\* service has the given level
FeaturesAtLevel(level, n) ==
    extract_object_features(
        [svc EXCEPT !.options.extraction_level = level], doc, n,
        call.force_recompute, call.fault).result.features

\* C14: in a freshly computed result the low-level features are exactly the
\* produced low-level features whose type is allowed at the configured
\* level ({Circle, Plane} at minimal, {Circle, Arc, Plane, Point} at
\* standard, the six low-level types at full), in their original order; and
\* the low-level result at minimal is a subsequence of that at standard,
\* which is a subsequence of that at full.
C14_LowLevelResultIsTheAllowedProduced ==
    (call.op # "none" /\ ~call.raised) =>
        \A n \in DOMAIN call.results :
            (check_exist(doc, n) /\ IsFresh(call.results[n])) =>
                LET produced == ProducedFeatures(get_object(doc, n))
                    level == svc.options.extraction_level
                    low_at(l) == OfTypes(FeaturesAtLevel(l, n), LowLevelTypes)
                IN  /\ OfTypes(call.results[n].features, LowLevelTypes) =
                            OfTypes(produced, StatedAllowedTypes(level))
                    /\ IsSubsequence(low_at("minimal"), low_at("standard"))
                    /\ IsSubsequence(low_at("standard"), low_at("full"))

\* a BRep result at the standard level that holds a Circle and an Arc and
\* from which an Edge was removed
C14_Witness ==
    /\ call.op # "none" /\ ~call.raised
    /\ svc.options.extraction_level = "standard"
    /\ \E n \in DOMAIN call.results :
        /\ check_exist(doc, n)
        /\ call.results[n].extraction_method = "brep"
        /\ \E f \in SeqRange(call.results[n].features) : f.type = "Feature::Circle"
        /\ \E f \in SeqRange(call.results[n].features) : f.type = "Feature::Arc"
        /\ \E f \in SeqRange(ProducedFeatures(get_object(doc, n))) :
                f.type = "Feature::Edge"

ResultsOfSave(d, extraction_level, force_recompute, fault) ==
    extract_all_features(
        NewFeatureExtractionService(d,
            [extraction_level |-> extraction_level,
             skip_intermediate_objects |-> TRUE]),
        d, AllObjects, force_recompute, fault).results

\* save on the document d changes nothing but the stored features of
\* objects whose extraction gave features and no error
SaveWritesBackOnly(d, extraction_level, force_recompute, fault) ==
    LET saved == save(d, extraction_level, force_recompute, fault)
        results == ResultsOfSave(d, extraction_level, force_recompute, fault)
    IN  /\ Len(saved) = Len(d)
        /\ \A i \in 1..Len(d) :
            /\ [saved[i] EXCEPT !.geometryFeatures = d[i].geometryFeatures] = d[i]
            /\ saved[i] # d[i] =>
                /\ results[d[i].name].extraction_method \in {"parameter", "brep"}
                /\ results[d[i].name].errors = <<>>
                /\ saved[i].geometryFeatures = results[d[i].name].features

\* C16: a call of extract_object_features or extract_all_features leaves the
\* object list of the document as it is (names, order, kinds, parameters,
\* visibility and stored features); and save, at any level, with or without
\* force_recompute and whatever the kernel does, writes nothing but the
\* stored features of objects whose extraction succeeded.
C16_ExtractionLeavesTheDocument ==
    /\ [][(call.op = "none" /\ call'.op # "none") => doc' = doc]_vars
    /\ [](call.op = "none" =>
            \A extraction_level \in ExtractionLevel, force_recompute \in BOOLEAN,
               fault \in Faults :
                FaultApplies(doc, objects(doc), fault) =>
                    SaveWritesBackOnly(doc, extraction_level, force_recompute, fault))

\* a batch extraction that returned features, on a document one of whose
\* objects holds the features a save wrote back
C16_Witness ==
    /\ call.op = "extract_all_features"
    /\ \E n \in DOMAIN call.results : call.results[n].features # <<>>
    /\ \E i \in 1..Len(doc) : doc[i].geometryFeatures # <<>>

\* C17: resolving an object of kind Any gives it a shape (its payload), so
\* that after a batch over the whole document the object has a shape in
\* the cache, and so has a boolean object whose operands are that object
\* and a primitive placed before it in the document.
C17_AnyObjectHasItsShape ==
    call.op = "extract_all_features" =>
        \A i \in 1..Len(doc) :
            /\ doc[i].shape = "Part::Any" =>
                    ShapeOf(svc._shape_cache, doc[i].name) # NoShape
            /\ ( /\ doc[i].shape \in BOOLEAN_OPERATIONS
                 /\ \A o \in Operands(doc[i]) :
                        \E j \in 1..(i - 1) :
                            /\ doc[j].name = o
                            /\ doc[j].shape \in BASIC_SHAPES \cup {"Part::Any"} ) =>
                    ShapeOf(svc._shape_cache, doc[i].name) # NoShape

\* the Torus features in a list of features
TorusFeatures(features) == OfTypes(features, {"Feature::Torus"})

\* the radius and the tube of the feature are Radius1 and Radius2 of the
\* object, and with a zero angle of rotation the axis is [0, 0, 1]
TorusFeatureMatches(feature, obj) ==
    /\ feature.geom.radius = obj.parameters.Radius1
    /\ feature.geom.tube = obj.parameters.Radius2
    /\ obj.parameters.Placement.Angle = 0 => feature.geom.axis = <<0, 0, 1>>

\* C18: for every Torus object the Torus feature has radius = Radius1 and
\* tube = Radius2, and with zero rotation the axis [0, 0, 1]: the one Torus
\* feature of the parameter path, the one of the BRep path on the object
\* itself, and the one the BRep path gives for a boolean object whose
\* operand the torus is.
C18_TorusRadiusAndTube ==
    call.op # "none" =>
        \A i \in 1..Len(doc) :
            doc[i].shape = "Part::Torus" =>
                LET obj == get_object(doc, doc[i].name)
                    parameter == TorusFeatures(_extract_from_parameters(obj))
                    brep == TorusFeatures(
                                _extract_from_brep(obj, svc._shape_cache,
                                                   call.fault).features)
                IN  /\ Len(parameter) = 1 /\ TorusFeatureMatches(parameter[1], obj)
                    /\ Len(brep) = 1 /\ TorusFeatureMatches(brep[1], obj)
                    /\ \A j \in 1..Len(doc) :
                        ( /\ doc[j].shape \in BOOLEAN_OPERATIONS
                          /\ doc[i].name \in Operands(doc[j]) ) =>
                            \A f \in SeqRange(TorusFeatures(
                                        _extract_from_brep(
                                            get_object(doc, doc[j].name),
                                            svc._shape_cache,
                                            call.fault).features)) :
                                TorusFeatureMatches(f, obj)

\* a batch over a torus with Radius1 # Radius2 and a boolean object whose
\* BRep features hold a Torus feature
C18_Witness ==
    /\ call.op = "extract_all_features"
    /\ \E i, j \in 1..Len(doc) :
        /\ doc[i].shape = "Part::Torus"
        /\ doc[i].parameters.Radius1 # doc[i].parameters.Radius2
        /\ doc[j].shape \in BOOLEAN_OPERATIONS
        /\ TorusFeatures(_extract_from_brep(get_object(doc, doc[j].name),
                                            svc._shape_cache,
                                            call.fault).features) # <<>>

\* the features of a type and a featureLevel mark in a list of features
Marked(features, type, featureLevel) ==
    LET wanted(f) == f.type = type /\ f.featureLevel = featureLevel
    IN  SelectSeq(features, wanted)

\* the identity placement at the origin: no translation, zero angle
IsIdentityPlacement(placement) ==
    placement.Position = <<0, 0, 0>> /\ placement.Angle = 0

\* C19: for every Box object with the identity placement the parameter path
\* produces exactly 8 Point, 12 Edge and 6 Plane features marked low and
\* exactly 6 Face features marked high.
C19_BoxFeatureCounts ==
    call.op # "none" =>
        \A i \in 1..Len(doc) :
            ( /\ doc[i].shape = "Part::Box"
              /\ IsIdentityPlacement(doc[i].parameters.Placement) ) =>
                LET features == _extract_from_parameters(get_object(doc, doc[i].name))
                IN  /\ Len(Marked(features, "Feature::Point", "low")) = 8
                    /\ Len(Marked(features, "Feature::Edge", "low")) = 12
                    /\ Len(Marked(features, "Feature::Plane", "low")) = 6
                    /\ Len(Marked(features, "Feature::Face", "high")) = 6

\* the 8 combinations (+-L/2, +-W/2, +-H/2)
CornerSet(L, W, H) ==
    {<<x, y, z>> : x \in {-(L \div 2), L \div 2}, y \in {-(W \div 2), W \div 2},
                   z \in {-(H \div 2), H \div 2}}

\* C20: for every Box object with positive dimensions (L, W, H) and the
\* identity placement at the origin, every corner Point lies at one of the
\* 8 combinations (+-L/2, +-W/2, +-H/2), each of the 12 Edge features has
\* both endpoints in that set, and no Edge has identical start and end.
C20_BoxCornersAndEdges ==
    call.op # "none" =>
        \A i \in 1..Len(doc) :
            ( /\ doc[i].shape = "Part::Box"
              /\ IsIdentityPlacement(doc[i].parameters.Placement) ) =>
                LET p == doc[i].parameters
                    features == _extract_from_parameters(get_object(doc, doc[i].name))
                    points == OfTypes(features, {"Feature::Point"})
                    edges == OfTypes(features, {"Feature::Edge"})
                    corners == CornerSet(p.Length, p.Width, p.Height)
                IN  /\ Len(edges) = 12
                    /\ \A k \in 1..Len(points) : points[k].geom.position \in corners
                    /\ \A k \in 1..Len(edges) :
                        /\ edges[k].geom.start \in corners
                        /\ edges[k].geom.end \in corners
                        /\ edges[k].geom.start # edges[k].geom.end

\* an extraction of a box whose length and height differ from its width, with the identity
\* placement, whose result holds the 8 corner points
C20_Witness ==
    /\ call.op = "extract_object_features" /\ ~call.raised
    /\ \E i \in 1..Len(doc) :
        /\ doc[i].shape = "Part::Box"
        /\ doc[i].name = call.obj_name
        /\ IsIdentityPlacement(doc[i].parameters.Placement)
        /\ doc[i].parameters.Length # doc[i].parameters.Width
        /\ doc[i].parameters.Width # doc[i].parameters.Height
        /\ Len(OfTypes(call.results[call.obj_name].features, {"Feature::Point"})) = 8

\* the features with a featureLevel mark in a list of features
WithLevel(features, featureLevel) ==
    LET marked(f) == f.featureLevel = featureLevel
    IN  SelectSeq(features, marked)

\* C21: for every Cylinder object the parameter path produces exactly 7
\* features marked low (2 Point, 2 Edge, 3 Plane) and exactly 1 high-level
\* Cylinder feature.
C21_CylinderFeatureCounts ==
    call.op # "none" =>
        \A i \in 1..Len(doc) :
            doc[i].shape = "Part::Cylinder" =>
                LET features == _extract_from_parameters(get_object(doc, doc[i].name))
                IN  /\ Len(WithLevel(features, "low")) = 7
                    /\ Len(Marked(features, "Feature::Point", "low")) = 2
                    /\ Len(Marked(features, "Feature::Edge", "low")) = 2
                    /\ Len(Marked(features, "Feature::Plane", "low")) = 3
                    /\ Len(Marked(features, "Feature::Cylinder", "high")) = 1

\* the numbers of low-level features and of high-level features of its own
\* type that the parameter path produces for an object
CountsOf(obj, high_type) ==
    LET features == _extract_from_parameters(obj)
    IN  <<Len(WithLevel(features, "low")), Len(WithLevel(features, "high")),
          Len(Marked(features, high_type, "high"))>>

\* C22: the parameter path produces for every Sphere object exactly 6
\* low-level features and 1 high-level Sphere feature, for every Cone object
\* exactly 7 low-level features and 1 high-level Cone feature, and for every
\* Torus object exactly 9 low-level features and 1 high-level Torus feature.
C22_SphereConeTorusFeatureCounts ==
    call.op # "none" =>
        \A i \in 1..Len(doc) :
            LET obj == get_object(doc, doc[i].name)
            IN  /\ obj.shape = "Part::Sphere" =>
                        CountsOf(obj, "Feature::Sphere") = <<6, 1, 1>>
                /\ obj.shape = "Part::Cone" =>
                        CountsOf(obj, "Feature::Cone") = <<7, 1, 1>>
                /\ obj.shape = "Part::Torus" =>
                        CountsOf(obj, "Feature::Torus") = <<9, 1, 1>>

\* a batch at the full level returned the features of a torus and of a sphere
C22_Witness ==
    /\ call.op = "extract_all_features"
    /\ svc.options.extraction_level = "full"
    /\ \E i, j \in 1..Len(doc) :
          /\ doc[i].shape = "Part::Torus"
          /\ doc[j].shape = "Part::Sphere"
          /\ call.results[doc[i].name].extraction_method = "parameter"
          /\ call.results[doc[j].name].extraction_method = "parameter"
          /\ Len(call.results[doc[i].name].features) = 9
          /\ Len(call.results[doc[j].name].features) = 6

\* the feature with a given name in a list of features that holds one
FeatureNamed(features, name) ==
    CHOOSE f \in SeqRange(features) : f.name = name

\* the signed distances along the axis that the model's cones can give
ApexDistances == -(ConeHeight * MaxMajor)..(ConeHeight * MaxMajor)

\* C23: for a Cone with bottom radius r1, top radius r2 and height h under
\* zero rotation, the apex Point lies on the cone axis at the distance
\* h*r1/(r1-r2) from the bottom centre when r1 differs from r2, and is the
\* bottom centre itself when r1 equals r2; for r1=3, r2=0, h=8 the distance
\* is 8.
C23_ConeApex ==
    call.op # "none" =>
        \A i \in 1..Len(doc) :
            ( /\ doc[i].shape = "Part::Cone"
              /\ doc[i].parameters.Placement.Angle = 0 ) =>
                LET obj == get_object(doc, doc[i].name)
                    features == _extract_from_parameters(obj)
                    apex == FeatureNamed(features, obj.name \o "_apex").geom.position
                    bottom == FeatureNamed(features,
                                  obj.name \o "_bottom_center").geom.position
                    axis == FeatureNamed(features, obj.name \o "_cone").geom.axis
                    r1 == obj.parameters.Radius1
                    r2 == obj.parameters.Radius2
                    h == obj.parameters.Height
                IN  /\ bottom = obj.parameters.Placement.Position
                    /\ r1 # r2 =>
                        \E k \in ApexDistances :
                            /\ k * (r1 - r2) = h * r1
                            /\ apex = VecAdd(bottom, VecScale(k, axis))
                    /\ r1 = r2 => apex = bottom
                    /\ (r1 = 3 /\ r2 = 0 /\ h = 8) =>
                        apex = VecAdd(bottom, VecScale(8, axis))

\* the extraction of a truncated cone away from the origin returned its apex
C23_Witness ==
    /\ call.op = "extract_object_features"
    /\ ~call.raised
    /\ \E i \in 1..Len(doc) :
          /\ doc[i].name = call.obj_name
          /\ doc[i].shape = "Part::Cone"
          /\ doc[i].parameters.Placement.Angle = 0
          /\ doc[i].parameters.Placement.Position # <<0, 0, 0>>
          /\ doc[i].parameters.Radius1 > doc[i].parameters.Radius2
          /\ doc[i].parameters.Radius2 > 0
          /\ \E f \in SeqRange(call.results[call.obj_name].features) :
                /\ f.name = doc[i].name \o "_apex"
                /\ f.geom.position # doc[i].parameters.Placement.Position

\* what a feature describes, whatever its name and its hash
Unnamed(features) ==
    [i \in 1..Len(features) |->
        [type |-> features[i].type, featureLevel |-> features[i].featureLevel,
         geom |-> features[i].geom]]

WithoutIndex(elements, index) ==
    [i \in 1..(Len(elements) - (IF index <= Len(elements) THEN 1 ELSE 0)) |->
        IF i < index THEN elements[i] ELSE elements[i + 1]]

\* the edges and faces of a shape other than the one the fault names
OtherElements(topo, fault) ==
    IF fault.kind = "edge"
    THEN [topo EXCEPT !.edges = WithoutIndex(topo.edges, fault.index)]
    ELSE [topo EXCEPT !.faces = WithoutIndex(topo.faces, fault.index)]

\* the BRep path produced, in their order, the features of every edge and
\* face of the shape other than the one the fault names
OthersProduced(obj_name, shape, extracted, fault) ==
    /\ ~extracted.raised
    /\ IsSubsequence(
          Unnamed(TopologyFeatures(obj_name, OtherElements(Topology(shape), fault))),
          Unnamed(extracted.features))

\* C24: in the BRep path a failure while one edge or one face is processed
\* is caught and only that edge or face is skipped: the features of all
\* other edges and faces of the shape are still produced and the path
\* returns normally
C24_FailingElementSkipped ==
    (/\ call.op = "extract_object_features"
     /\ call.fault.kind \in {"edge", "face"}
     /\ call.fault.name = call.obj_name
     /\ check_exist(doc, call.obj_name))
        => /\ ~call.raised
           /\ LET obj == get_object(doc, call.obj_name)
              IN  OthersProduced(obj.name,
                      _reconstruct_occ_shape(obj, svc._shape_cache, NoFault).shape,
                      _extract_from_brep(obj, svc._shape_cache, call.fault),
                      call.fault)

\* the kernel raised at the first face of a shape with several faces, part
\* of the way through a plane, and features came back
C24_Witness ==
    /\ call.op = "extract_object_features"
    /\ call.fault.kind = "face"
    /\ call.fault.fail = "partway"
    /\ call.fault.index = 1
    /\ call.fault.name = call.obj_name
    /\ check_exist(doc, call.obj_name)
    /\ ~call.raised
    /\ LET obj == get_object(doc, call.obj_name)
           topo == Topology(_reconstruct_occ_shape(obj, svc._shape_cache,
                                                   NoFault).shape)
       IN  /\ Len(topo.faces) > 1
           /\ topo.faces[1].surface = "plane"
           /\ \E f \in SeqRange(_extract_from_brep(obj, svc._shape_cache,
                                                   call.fault).features) :
                 f.type = "Feature::Face"

DistinctNames(features) ==
    \A i, j \in 1..Len(features) : features[i].name = features[j].name => i = j

\* the features the extraction path of an object produces, before the
\* filter of the level
PathFeatures(obj, _shape_cache, fault) ==
    IF obj.shape \in BASIC_SHAPES
    THEN _extract_from_parameters(obj)
    ELSE _extract_from_brep(obj, _shape_cache, fault).features

\* C27: within the feature list produced for one object the feature names
\* are pairwise distinct, in the parameter path and in the BRep path, also
\* for a shape with several faces of the same surface kind and when the
\* processing of one face fails part-way
C27_FeatureNamesDistinct ==
    call.op # "none" =>
        \A i \in 1..Len(doc) :
            DistinctNames(PathFeatures(get_object(doc, doc[i].name),
                                       svc._shape_cache, call.fault))

\* the features save() would store on the object now, with its own service
FeaturesSavedNow(d, name) ==
    geometryFeaturesOf(
        save(d, "standard", TRUE, NoFault)[_get_yobject_index_by_name(d, name)])

\* the document holds, on the map of the named boolean object, features
\* stored before the radius of one of its operands was modified
StoredBeforeOperandChange(d, name) ==
    /\ check_exist(d, name)
    /\ LET obj_map == _get_yobject_by_name(d, name)
       IN  /\ obj_map.shape \in BOOLEAN_OPERATIONS
           /\ geometryFeaturesOf(obj_map) # <<>>
           /\ \E o \in Operands(get_object(d, name)) :
                 /\ check_exist(d, o)
                 /\ _get_yobject_by_name(d, o).shape \in BASIC_SHAPES
                 /\ _get_yobject_by_name(d, o).parameters.Radius > 1
           /\ geometryFeaturesOf(obj_map) # FeaturesSavedNow(d, name)

\* C25: the features returned for a boolean object (Cut, MultiFuse,
\* MultiCommon) are never stale with respect to its operands: after a
\* parameter of one of its operands is modified, extracting the boolean
\* object with force_recompute = false does not return the features cached
\* before the modification
C25_BooleanNotStale ==
    (/\ call.op = "extract_object_features"
     /\ ~call.force_recompute
     /\ ~call.raised
     /\ call.fault = NoFault
     /\ StoredBeforeOperandChange(doc, call.obj_name))
        => call.results[call.obj_name].features
              # geometryFeaturesOf(_get_yobject_by_name(doc, call.obj_name))

\* C26: every feature in any result returned by extraction, a result
\* tagged cached whose features were stored under another extraction level
\* included, has a type in the allowed feature-type set of the level the
\* service is configured with
C26_ResultTypesAllowed ==
    call.op # "none" =>
        \A n \in DOMAIN call.results :
            \A f \in SeqRange(call.results[n].features) :
                f.type \in allowed_feature_types(svc.options)

\* the names an object refers to as Base, Tool or in its Shapes list
ReferencesOf(obj_map) ==
    IF obj_map.shape = "Part::Cut"
    THEN {obj_map.parameters.Base, obj_map.parameters.Tool}
    ELSE IF obj_map.shape \in {"Part::MultiFuse", "Part::MultiCommon"}
    THEN SeqRange(obj_map.parameters.Shapes)
    ELSE {}

\* C28: after any sequence of add_box / add_cylinder / add_sphere /
\* add_cone / add_torus and cut / fuse / intersect operations, every name an
\* object references as Base, Tool or in its Shapes list denotes an object
\* located earlier in the document's object list, and each operand of a
\* boolean operation is hidden once the operation has added its result
C28_OperandsEarlierAndHidden ==
    changes = 0 =>
        \A i \in 1..Len(doc) :
            \A name \in ReferencesOf(doc[i]) :
                \E j \in 1..(i - 1) :
                    /\ doc[j].name = name
                    /\ ~doc[j].visible

\* a boolean operation with default operands has added its result to a
\* document of two objects
C28_Witness ==
    /\ changes = 0
    /\ call.op = "boolean"
    /\ ~call.raised
    /\ call.shape1 = NoOperand
    /\ Len(doc) = 3
    /\ Len(call.before) = 2
    /\ ReferencesOf(doc[3]) # {}
    /\ \E i \in 1..2 : ~doc[i].visible

\* C29: rename(old_name, new_name) on a document that contains old_name
\* preserves the number of objects and keeps the object names pairwise
\* distinct: the object previously named old_name is still in the document
\* afterwards, under new_name, or the document is unchanged when new_name is
\* already used by another object
C29_RenamePreservesObjects ==
    call.op = "rename" =>
        LET old_name == call.name
            new_name == call.shape1
            renamed == _get_yobject_by_name(call.before, old_name)
        IN  /\ Len(doc) = Len(call.before)
            /\ \A i, j \in 1..Len(doc) : doc[i].name = doc[j].name => i = j
            /\ IF new_name # old_name /\ check_exist(call.before, new_name)
               THEN doc = call.before
               ELSE /\ check_exist(doc, new_name)
                    /\ _get_yobject_by_name(doc, new_name).shape = renamed.shape
                    /\ _get_yobject_by_name(doc, new_name).parameters
                          = renamed.parameters

\* C30: a boolean operation (cut, fuse, intersect) that does not add its
\* result object, because the requested result name is already used in the
\* document or because an operand is invalid, leaves the document unchanged,
\* the visibility of the operands included
C30_FailedBooleanChangesNothing ==
    (/\ call.op = "boolean"
     /\ (call.raised \/ check_exist(call.before, call.name)))
        => doc = call.before

====
